---- MODULE Spec2Model ----
(***************************************************************************)
(* A model of the two toy-CPU emulators of this repository:                *)
(*   src/mipt32/mipt32.cpp  ("Profile A": word-addressed, 17 registers)    *)
(*   src/mipt64/mipt64.cpp  ("Profile B": byte-addressed, 33 registers)    *)
(* Each behaviour is one run of one of the two programs: main() reads the  *)
(* lines of input.fasm into `input`, assembles them into memory and then   *)
(* runs the emulate() loop.                                                *)
(*                                                                         *)
(* Machine words are wider than TLC's integers, so every unsigned value of *)
(* the programs (word, dword) is held as four 16-bit limbs, least          *)
(* significant first: <<l0, l1, l2, l3>> stands for                        *)
(* l0 + l1*2^16 + l2*2^32 + l3*2^48.                                       *)
(***************************************************************************)
EXTENDS Integers, Sequences, FiniteSets, TLC

VARIABLES
    profile,    \* which of the two programs runs: "mipt32" or "mipt64"
    wordBits,   \* width of `unsigned long int` in this build (mipt32.cpp:36)
    file,       \* the lines of input.fasm
    typed,      \* the whole input stream the run is given
    input,      \* vector<string> input: the source lines
    label,      \* map<string, word> label
    mem,        \* the memory array, as the finite map of its non-zero cells
    regs,       \* the register array
    status,     \* "load", "running", "exited", "aborted", "fault"
    exitcode,   \* the argument of exit(), once called
    stdin,      \* characters not yet read from the input stream
    stdout,     \* character codes written so far
    last,       \* history: the last emulate() iteration (address, opcode, arguments,
                \* registers and memory before it)
    stk,        \* history: the current run of pushes followed by pops
    calls       \* history: the address and stack pointer of every calli executed

vars == <<profile, wordBits, file, typed, input, label, mem, regs, status, exitcode, stdin, stdout,
          last, stk>>

---------------------------------------------------------------------------
(* Unsigned arithmetic on limbs.                                           *)

Limb == 256 * 256

\* F applied to the value of v: v is evaluated once, however often F uses it
Let(v, F(_)) == CHOOSE y \in {F(x) : x \in {v}} : TRUE

\* a for loop: Step applied for k = lo, lo + 1, ..., hi in turn, starting from
\* st. (The range is halved so that the evaluation nests only log-deep.)
RECURSIVE Loop(_, _, _, _)
Loop(Step(_, _), st, lo, hi) ==
    IF lo > hi THEN st
    ELSE IF lo = hi THEN Step(st, lo)
    ELSE Let(Loop(Step, st, lo, (lo + hi) \div 2),
             LAMBDA s1 : Loop(Step, s1, ((lo + hi) \div 2) + 1, hi))

Zero == <<0, 0, 0, 0>>

\* the value n, for 0 <= n < 2^31
W(n) == <<n % Limb, n \div Limb, 0, 0>>

\* a + b modulo 2^64
Add64(a, b) ==
    LET s0 == a[1] + b[1]
        s1 == a[2] + b[2] + (s0 \div Limb)
        s2 == a[3] + b[3] + (s1 \div Limb)
        s3 == a[4] + b[4] + (s2 \div Limb)
    IN  <<s0 % Limb, s1 % Limb, s2 % Limb, s3 % Limb>>

\* bitwise complement of a 64-bit value
Not64(a) == <<Limb - 1 - a[1], Limb - 1 - a[2], Limb - 1 - a[3], Limb - 1 - a[4]>>

\* a - b modulo 2^64
Sub64(a, b) == Add64(Add64(a, Not64(b)), W(1))

\* a < b, unsigned
Lt64(a, b) ==
    \/ a[4] < b[4]
    \/ a[4] = b[4] /\ a[3] < b[3]
    \/ a[4] = b[4] /\ a[3] = b[3] /\ a[2] < b[2]
    \/ a[4] = b[4] /\ a[3] = b[3] /\ a[2] = b[2] /\ a[1] < b[1]

\* the low 32 bits of a
Low32(a) == <<a[1], a[2], 0, 0>>

\* a >> 32 and a << 32 on a 64-bit value
Shr32(a) == <<a[3], a[4], 0, 0>>
Shl32(a) == <<0, 0, a[1], a[2]>>

\* a value that fits TLC's integers, and that integer
IsSmall(a) == a[3] = 0 /\ a[4] = 0 /\ a[2] < Limb \div 2
Val(a) == a[2] * Limb + a[1]

\* conversion of a value to the build's `word` (unsigned long int)
ToWord(a) == IF wordBits = 32 THEN Low32(a) ELSE a

\* conversion of a (signed) int n, |n| < 2^31, to the build's `word`
IntToWord(n) == IF n >= 0 THEN ToWord(W(n)) ELSE ToWord(Sub64(Zero, W(-n)))

\* conversion of a word to int: the low 32 bits, two's complement
WordToInt(a) ==
    IF a[2] >= Limb \div 2 THEN (a[2] - Limb) * Limb + a[1] ELSE a[2] * Limb + a[1]

---------------------------------------------------------------------------
(* std::string operations. Positions are 0-based as in the source; a       *)
(* string is a TLA+ string, whose characters SubSeq reaches.               *)

\* std::string::npos, as find() results are compared in split()
npos == -1

\* s[i]
CharAt(s, i) == SubSeq(s, i + 1, i + 1)

\* s.find(c): the first position of character c, or npos
RECURSIVE FindFrom(_, _, _)
FindFrom(s, c, i) ==
    IF i >= Len(s) THEN npos
    ELSE IF CharAt(s, i) = c THEN i
    ELSE FindFrom(s, c, i + 1)

find(s, c) == FindFrom(s, c, 0)

\* s.substr(pos, n), for pos <= s.length(): n is cut at the end of the string
substr(s, pos, n) ==
    LET e == IF pos + n > Len(s) THEN Len(s) ELSE pos + n
    IN  SubSeq(s, pos + 1, e)

DigitChars == "0123456789"

IsDigit(c) == \E d \in 0..9 : CharAt(DigitChars, d) = c

DigitVal(c) == CHOOSE d \in 0..9 : CharAt(DigitChars, d) = c

\* the digits of s from position i on, accumulated onto acc
RECURSIVE ParseDigits(_, _, _)
ParseDigits(s, i, acc) ==
    IF i < Len(s) /\ IsDigit(CharAt(s, i))
    THEN ParseDigits(s, i + 1, acc * 10 + DigitVal(CharAt(s, i)))
    ELSE acc

RECURSIVE SkipBlanks(_, _)
SkipBlanks(s, i) ==
    IF i < Len(s) /\ CharAt(s, i) \in {" ", "\t"} THEN SkipBlanks(s, i + 1) ELSE i

\* strtol(s, nullptr, 10): leading blanks, an optional sign, then digits up to
\* the first other character; 0 when there is no digit. (Literals in the model
\* stay below 2^31 in magnitude, so the range of long is never exceeded.)
strtol(s) ==
    LET i == SkipBlanks(s, 0)
        neg == i < Len(s) /\ CharAt(s, i) = "-"
        j == IF i < Len(s) /\ CharAt(s, i) \in {"-", "+"} THEN i + 1 ELSE i
        n == ParseDigits(s, j, 0)
    IN  IF neg THEN 0 - n ELSE n

\* split (mipt32.cpp:260, mipt64.cpp:227): the lexemes of a command; a lexeme
\* cut at a comma keeps the comma.
RECURSIVE splitLoop(_, _)
splitLoop(command, res) ==
    LET fs == find(command, " ")
        fc == find(command, ",")
    IN  IF fs = fc
        THEN IF Len(command) > 0 THEN Append(res, command) ELSE res
        ELSE LET \* find(' ') > find(',') + 1 and find(',') != -1, on size_t
                 coma == fc # npos /\ (fs = npos \/ fs > fc + 1)
                 pos == IF coma THEN fc ELSE fs
                 res1 == IF pos > 0
                         THEN Append(res, IF coma THEN substr(command, 0, pos + 1)
                                                  ELSE substr(command, 0, pos))
                         ELSE res
             IN  splitLoop(substr(command, pos + 1, Len(command)), res1)

split(command) == splitLoop(command, <<>>)

\* the string without its leading blanks and tabs
StripBlanks(s) == substr(s, SkipBlanks(s, 0), Len(s))

\* file_input (mipt32.cpp:238, mipt64.cpp:205), one line: the comment is cut;
\* of a line with ':' either the text after the colon is kept (when longer
\* than 3 characters) or the text up to the colon
file_inputLine(line) ==
    LET c == find(line, ";")
        temp == IF c = npos THEN line ELSE substr(line, 0, c)
        k == find(temp, ":")
        temp1 == substr(temp, 0, k + 1)
        temp2 == StripBlanks(substr(temp, k + 1, Len(temp) - k - 1))
    IN  StripBlanks(IF k = npos THEN temp
                    ELSE IF Len(temp2) > 3 THEN temp2 ELSE temp1)

\* file_input: the non-empty lines it pushes to `input`
file_input(lines) ==
    SelectSeq([i \in 1..Len(lines) |-> file_inputLine(lines[i])],
              LAMBDA t : Len(t) > 0)

---------------------------------------------------------------------------
(* More limb arithmetic: shifts and multiplication by a small factor.      *)

RECURSIVE Pow2(_)
Pow2(k) == IF k = 0 THEN 1 ELSE 2 * Pow2(k - 1)

\* a * f modulo 2^64, for 0 <= f <= 2^15
MulSmall(a, f) ==
    LET p0 == a[1] * f
        p1 == a[2] * f + (p0 \div Limb)
        p2 == a[3] * f + (p1 \div Limb)
        p3 == a[4] * f + (p2 \div Limb)
    IN  <<p0 % Limb, p1 % Limb, p2 % Limb, p3 % Limb>>

\* a shifted left by q whole limbs
ShlLimbs(a, q) ==
    LET at(i) == IF i - q >= 1 THEN a[i - q] ELSE 0
    IN  <<at(1), at(2), at(3), at(4)>>

\* a << k on a 64-bit value, 0 <= k < 64
Shl64(a, k) == ShlLimbs(MulSmall(a, Pow2(k % 16)), k \div 16)

\* a * f modulo 2^64, for a limb f
MulLimb(a, f) ==
    Add64(MulSmall(a, f % (Limb \div 2)),
          IF f >= Limb \div 2 THEN MulSmall(a, Limb \div 2) ELSE Zero)

\* a * b modulo 2^64
Mul64(a, b) ==
    Add64(Add64(MulLimb(a, b[1]), ShlLimbs(MulLimb(a, b[2]), 1)),
          Add64(ShlLimbs(MulLimb(a, b[3]), 2), ShlLimbs(MulLimb(a, b[4]), 3)))

\* a shifted right by q whole limbs
ShrLimbs(a, q) ==
    LET at(i) == IF i + q <= 4 THEN a[i + q] ELSE 0
    IN  <<at(1), at(2), at(3), at(4)>>

\* a >> r on a 64-bit value, 0 <= r < 16
ShrSmall(a, r) ==
    LET d == Pow2(r)
        q4 == a[4] \div d
        q3 == ((a[4] % d) * Limb + a[3]) \div d
        q2 == ((a[3] % d) * Limb + a[2]) \div d
        q1 == ((a[2] % d) * Limb + a[1]) \div d
    IN  <<q1 % Limb, q2 % Limb, q3 % Limb, q4>>

\* a >> k on a 64-bit value, 0 <= k < 64
Shr64(a, k) == ShrSmall(ShrLimbs(a, k \div 16), k % 16)

---------------------------------------------------------------------------
(* Profile A (mipt32.cpp): tables and bit fields.                          *)

MEMSIZE32 == 1048576

\* TYPE: opcode -> format. TYPE.at() of an opcode outside the table throws.
RI32 == {0, 1, 3, 5, 7, 9, 12, 14, 16, 18, 20, 22, 23, 38, 39, 42, 44}
RR32 == {2, 4, 6, 8, 13, 15, 17, 19, 21, 24, 32, 33, 34, 35, 36, 37, 40, 43, 45,
         68, 69, 70, 71}
J32 == {41, 46, 47, 48, 49, 50, 51, 52}
RM32 == {64, 65, 66, 67}

TYPE32 ==
    [t \in RI32 \cup RR32 \cup J32 \cup RM32 |->
        IF t \in RI32 THEN "RI" ELSE IF t \in RR32 THEN "RR"
        ELSE IF t \in J32 THEN "J" ELSE "RM"]

\* CODE: mnemonic -> opcode
CODE32 ==
    [halt |-> 0, syscall |-> 1, add |-> 2, addi |-> 3, sub |-> 4, subi |-> 5,
     mul |-> 6, muli |-> 7, div |-> 8, divi |-> 9, lc |-> 12, shl |-> 13,
     shli |-> 14, shr |-> 15, shri |-> 16, and |-> 17, andi |-> 18, or |-> 19,
     ori |-> 20, xor |-> 21, xori |-> 22, not |-> 23, mov |-> 24, addd |-> 32,
     subd |-> 33, muld |-> 34, divd |-> 35, itod |-> 36, dtoi |-> 37,
     push |-> 38, pop |-> 39, call |-> 40, calli |-> 41, ret |-> 42, cmp |-> 43,
     cmpi |-> 44, cmpd |-> 45, jmp |-> 46, jne |-> 47, jeq |-> 48, jle |-> 49,
     jl |-> 50, jge |-> 51, jg |-> 52, load |-> 64, store |-> 65, load2 |-> 66,
     store2 |-> 67, loadr |-> 68, loadr2 |-> 69, storer |-> 70, storer2 |-> 71]

\* (x & f8) >> 24: bits 24..31
tf8(x) == x[2] \div 256

\* (x & s4) >> 20: bits 20..23
ts4(x) == (x[2] \div 16) % 16

\* (x & t4) >> 16: bits 16..19
tt4(x) == x[2] % 16

\* x & l20, x & l16, x & l24
tl20(x) == <<x[1], x[2] % 16, 0, 0>>
tl16(x) == <<x[1], 0, 0, 0>>
tl24(x) == <<x[1], x[2] % 256, 0, 0>>

---------------------------------------------------------------------------
(* Memory and registers. An index outside the array is undefined           *)
(* behaviour: the handlers below report it (ub), a read through it yields  *)
(* the arbitrary value `wild`, a write through it lands outside the state. *)

MemOK32(adr) == IsSmall(adr) /\ Val(adr) < MEMSIZE32

gmem32(m, adr, wild) ==
    IF ~MemOK32(adr) THEN wild
    ELSE IF Val(adr) \in DOMAIN m THEN m[Val(adr)] ELSE Zero

smem32(m, adr, val) ==
    IF ~MemOK32(adr) THEN m
    ELSE IF val = Zero THEN [a \in DOMAIN m \ {Val(adr)} |-> m[a]]
    ELSE (Val(adr) :> val) @@ m

NREGS32 == 17

RegOK32(adr) == IsSmall(adr) /\ Val(adr) < NREGS32

greg32(rs, adr, wild) == IF RegOK32(adr) THEN rs[Val(adr)] ELSE wild

sreg32(rs, adr, val) == IF RegOK32(adr) THEN [rs EXCEPT ![Val(adr)] = val] ELSE rs

\* word arithmetic of the build: unsigned long int wraps at wordBits
WAdd(a, b) == ToWord(Add64(a, b))
WSub(a, b) == ToWord(Sub64(a, b))

\* push_stack(val): the registers and memory after it, and whether the
\* store went outside mem
push_stack32(rs, m, val) ==
    LET rs1 == sreg32(rs, W(14), WSub(rs[14], W(1)))
    IN  [r |-> rs1, m |-> smem32(m, rs1[14], val), ub |-> ~MemOK32(rs1[14])]

\* pop_stack(x): the value read, the registers after it, and whether the
\* load went outside mem
pop_stack32(rs, m, x, wild) ==
    [val |-> gmem32(m, rs[14], wild),
     r |-> sreg32(rs, W(14), WAdd(rs[14], x)),
     ub |-> ~MemOK32(rs[14])]

---------------------------------------------------------------------------
(* Profile A: the assembler.                                               *)

WShl(a, k) == ToWord(Shl64(a, k))

\* lexemes[k] (0-based) is inside the vector
HasLex(lexemes, k) == k < Len(lexemes)
Lex(lexemes, k) == lexemes[k + 1]

\* the last character of a lexeme is ':'
IsLabelDecl(first_part) == CharAt(first_part, Len(first_part) - 1) = ":"

\* parse_labels (mipt32.cpp:285), one pass of the for loop at index st.i: a
\* label-only line is erased, and i advances all the same
parse_labelsStep32(st, k) ==
    IF st.i >= Len(st.input) THEN st
    ELSE Let(split(st.input[st.i + 1]), LAMBDA parts :
        Let(parts[1], LAMBDA first_part :
            IF IsLabelDecl(first_part)
            THEN [i |-> st.i + 1,
                  label |-> (substr(first_part, 0, Len(first_part) - 1) :> IntToWord(st.i))
                            @@ st.label,
                  input |-> IF Len(parts) = 1
                            THEN SubSeq(st.input, 1, st.i)
                                 \o SubSeq(st.input, st.i + 2, Len(st.input))
                            ELSE [st.input EXCEPT ![st.i + 1] =
                                     substr(@, Len(first_part), Len(@) - Len(first_part))]]
            ELSE [st EXCEPT !.i = @ + 1]))

\* parse_labels: the loop runs while i < input.size(), so at most once per
\* line of the input it starts from
parse_labels32(inp, lab) ==
    Loop(parse_labelsStep32, [i |-> 0, label |-> lab, input |-> inp], 1, Len(inp))

\* the operand fields of make_comm (mipt32.cpp:357): what is added to the opcode
\* for each format, or the way the call fails. "throw": CODE.at or substr
\* throws; "ub": a lexeme index outside the vector.
RegField32(lexeme, sh) == WShl(IntToWord(strtol(substr(lexeme, 1, Len(lexeme) - 1))), sh)

LabelOrLiteral32(lab, str) ==
    IF str \in DOMAIN lab THEN lab[str] ELSE IntToWord(strtol(str))

make_comm32(lexemes, lab) ==
    IF Lex(lexemes, 0) \notin DOMAIN CODE32 THEN [err |-> "throw", coded |-> Zero]
    ELSE
    LET code == CODE32[Lex(lexemes, 0)]
        coded == WShl(W(code), 24)
        type == TYPE32[code]
    IN  CASE type = "RM" ->
               IF ~HasLex(lexemes, 2) THEN [err |-> "ub", coded |-> Zero]
               ELSE [err |-> "ok",
                     coded |-> WAdd(coded, WAdd(RegField32(Lex(lexemes, 1), 20),
                                                IntToWord(strtol(Lex(lexemes, 2)))))]
          [] type = "RR" ->
               IF ~HasLex(lexemes, 3) THEN [err |-> "ub", coded |-> Zero]
               ELSE [err |-> "ok",
                     coded |-> WAdd(coded,
                                    WAdd(WAdd(RegField32(Lex(lexemes, 1), 20),
                                              RegField32(Lex(lexemes, 2), 16)),
                                         IntToWord(strtol(Lex(lexemes, 3)))))]
          [] type = "RI" ->
               IF code # 42
               THEN IF ~HasLex(lexemes, 2) THEN [err |-> "ub", coded |-> Zero]
                    ELSE [err |-> "ok",
                          coded |-> WAdd(coded,
                                         WAdd(RegField32(Lex(lexemes, 1), 20),
                                              LabelOrLiteral32(lab, Lex(lexemes, 2))))]
               ELSE IF ~HasLex(lexemes, 1) THEN [err |-> "ub", coded |-> Zero]
                    ELSE [err |-> "ok",
                          coded |-> WAdd(coded,
                                         WAdd(WShl(IntToWord(strtol("0")), 20),
                                              LabelOrLiteral32(lab, Lex(lexemes, 1))))]
          [] type = "J" ->
               IF ~HasLex(lexemes, 1) THEN [err |-> "ub", coded |-> Zero]
               ELSE [err |-> "ok",
                     coded |-> WAdd(coded, LabelOrLiteral32(lab, Lex(lexemes, 1)))]

\* strtod followed by memcpy to a dword: the IEEE-754 bit pattern of the
\* literals the model's programs use
DoubleBits(str) ==
    CASE str = "0" -> Zero
      [] str = "1.0" -> <<0, 0, 0, 16368>>
      [] str = "2.5" -> <<0, 0, 0, 16388>>
      [] str = "4.0" -> <<0, 0, 0, 16400>>
      [] str = "10.0" -> <<0, 0, 0, 16420>>
      [] str = "0.1" -> <<39322, 39321, 39321, 16313>>

\* the for loop of assemble (mipt32.cpp:397), one pass: line k of inp is
\* written at output position st.pc. st.done: the loop was left (by `end` or
\* by a failure, st.err). label[splited[1]] of `end` inserts a name the table
\* lacks, with the value 0.
assembleStep32(inp, lab, st, k) ==
    IF st.done THEN st
    ELSE Let(split(inp[k + 1]), LAMBDA splited :
        IF Lex(splited, 0) = "end"
        THEN IF ~HasLex(splited, 1) THEN [st EXCEPT !.done = TRUE, !.err = "ub"]
             ELSE [st EXCEPT !.done = TRUE,
                             !.regs = sreg32(@, W(15),
                                             IF Lex(splited, 1) \in DOMAIN lab
                                             THEN lab[Lex(splited, 1)] ELSE Zero),
                             !.label = IF Lex(splited, 1) \in DOMAIN lab THEN lab
                                       ELSE (Lex(splited, 1) :> Zero) @@ lab]
        ELSE IF Lex(splited, 0) = "word"
        THEN IF ~HasLex(splited, 1) THEN [st EXCEPT !.done = TRUE, !.err = "ub"]
             ELSE [st EXCEPT !.mem = smem32(@, st.pc, IntToWord(strtol(Lex(splited, 1)))),
                             !.pc = WAdd(@, W(1))]
        ELSE IF Lex(splited, 0) = "double"
        THEN IF ~HasLex(splited, 1) THEN [st EXCEPT !.done = TRUE, !.err = "ub"]
             ELSE Let(DoubleBits(Lex(splited, 1)), LAMBDA tmp :
                      [st EXCEPT !.mem = smem32(smem32(@, st.pc,
                                                       ToWord(Shr64(Shl64(tmp, 32), 32))),
                                                WAdd(st.pc, W(1)), ToWord(Shr64(tmp, 32))),
                                 !.pc = WAdd(@, W(1))])
        ELSE Let(make_comm32(splited, lab), LAMBDA c :
                 IF c.err # "ok" THEN [st EXCEPT !.done = TRUE, !.err = c.err]
                 ELSE [st EXCEPT !.mem = smem32(@, st.pc, c.coded),
                                 !.pc = WAdd(@, W(1))]))

\* assemble (mipt32.cpp:394): parse_labels, the encode loop, then the stack
\* pointer. (On a failure the process ends before the last line matters.)
assemble32(inp, lab, m, rs) ==
    Let(parse_labels32(inp, lab), LAMBDA pl :
        Let(Loop(LAMBDA st, k : assembleStep32(pl.input, pl.label, st, k),
                 [done |-> FALSE, err |-> "ok", pc |-> Zero, mem |-> m, regs |-> rs,
                  label |-> pl.label],
                 0, Len(pl.input) - 1),
            LAMBDA res :
                [err |-> res.err, input |-> pl.input, label |-> res.label,
                 mem |-> res.mem,
                 regs |-> sreg32(res.regs, W(14), W(MEMSIZE32 - 1))]))

---------------------------------------------------------------------------
(* Division of a dword by a dword (the / and % of the source), by binary   *)
(* long division on limbs.                                                 *)

Bit(a, k) == (a[(k \div 16) + 1] \div Pow2(k % 16)) % 2

\* one step of the division: bit k of a is brought down onto the partial
\* result st
DivStep(a, b, k, st) ==
    Let(Add64(Shl64(st.rem, 1), W(Bit(a, k))), LAMBDA r2 :
        IF st.rem[4] >= Limb \div 2 \/ ~Lt64(r2, b)
        THEN [quot |-> Add64(Shl64(st.quot, 1), W(1)), rem |-> Sub64(r2, b)]
        ELSE [quot |-> Shl64(st.quot, 1), rem |-> r2])

\* a / b and a % b for b # 0
DivMod64(a, b) ==
    Loop(LAMBDA st, j : DivStep(a, b, 63 - j, st), [quot |-> Zero, rem |-> Zero], 0, 63)

---------------------------------------------------------------------------
(* Profile A: the instruction handlers (mipt32.cpp:422-722). A handler     *)
(* takes the registers rs and memory m, the arguments a = [r1, r2, mod,    *)
(* tail] switch_c passes it, and nd = [wild, sh]: the value an out-of-range*)
(* read yields and the outcome of an over-wide shift. It yields the        *)
(* registers and memory after it and whether it left defined behaviour.    *)

\* x << 32 where x is a `word`: defined when the word has 64 bits; a shift
\* by the full width of a 32-bit word is undefined, and builds yield either
\* 0 or x itself (the shift count taken modulo 32)
WordShl32(x, nd) ==
    IF wordBits = 64 THEN Shl32(x)
    ELSE IF nd.sh = "zero" THEN Zero ELSE x

\* (greg(r + 1) << 32) + greg(r), as a dword
Pair32(rs, r, nd) ==
    WAdd(WordShl32(greg32(rs, WAdd(r, W(1)), nd.wild), nd), greg32(rs, r, nd.wild))

add32(rs, m, a, nd) ==
    [r |-> sreg32(rs, a.r1, WAdd(WAdd(greg32(rs, a.r1, nd.wild),
                                      greg32(rs, a.r2, nd.wild)), a.mod)),
     m |-> m, ub |-> ~RegOK32(a.r1) \/ ~RegOK32(a.r2)]

addi32(rs, m, a, nd) ==
    [r |-> sreg32(rs, a.r1, WAdd(greg32(rs, a.r1, nd.wild), a.mod)),
     m |-> m, ub |-> ~RegOK32(a.r1)]

sub32(rs, m, a, nd) ==
    [r |-> sreg32(rs, a.r1, WSub(WSub(greg32(rs, a.r1, nd.wild),
                                      greg32(rs, a.r2, nd.wild)), a.mod)),
     m |-> m, ub |-> ~RegOK32(a.r1) \/ ~RegOK32(a.r2)]

div32(rs, m, a, nd) ==
    LET fir == Pair32(rs, a.r1, nd)
        d == greg32(rs, a.r2, nd.wild)
        by0 == d = Zero
        qr == IF by0 THEN [quot |-> nd.wild, rem |-> nd.wild] ELSE DivMod64(fir, d)
        rs1 == sreg32(rs, a.r1, ToWord(qr.quot))
    IN  [r |-> sreg32(rs1, WAdd(a.r1, W(1)), ToWord(qr.rem)),
         m |-> m,
         ub |-> by0 \/ ~RegOK32(a.r1) \/ ~RegOK32(WAdd(a.r1, W(1))) \/ ~RegOK32(a.r2)]

\* the product is formed in `word` and only then widened to dword
MulPair32(rs, r1, x, y) ==
    LET res == ToWord(Mul64(x, y))
        rs1 == sreg32(rs, r1, ToWord(Low32(res)))
    IN  sreg32(rs1, WAdd(r1, W(1)), ToWord(Shr64(res, 32)))

mul32(rs, m, a, nd) ==
    [r |-> MulPair32(rs, a.r1, greg32(rs, a.r1, nd.wild), greg32(rs, a.r2, nd.wild)),
     m |-> m,
     ub |-> ~RegOK32(a.r1) \/ ~RegOK32(WAdd(a.r1, W(1))) \/ ~RegOK32(a.r2)]

muli32(rs, m, a, nd) ==
    [r |-> MulPair32(rs, a.r1, greg32(rs, a.r1, nd.wild), a.mod),
     m |-> m,
     ub |-> ~RegOK32(a.r1) \/ ~RegOK32(WAdd(a.r1, W(1)))]

lc32(rs, m, a, nd) ==
    [r |-> sreg32(rs, a.r1, a.mod), m |-> m, ub |-> ~RegOK32(a.r1)]

mov32(rs, m, a, nd) ==
    [r |-> sreg32(rs, a.r1, WAdd(greg32(rs, a.r2, nd.wild), a.mod)),
     m |-> m, ub |-> ~RegOK32(a.r1) \/ ~RegOK32(a.r2)]

push32(rs, m, a, nd) ==
    LET p == push_stack32(rs, m, WAdd(greg32(rs, a.r1, nd.wild), a.mod))
    IN  [r |-> p.r, m |-> p.m, ub |-> p.ub \/ ~RegOK32(a.r1)]

pop32(rs, m, a, nd) ==
    LET p == pop_stack32(rs, m, W(1), nd.wild)
    IN  [r |-> sreg32(p.r, a.r1, WAdd(p.val, a.mod)), m |-> m,
         ub |-> p.ub \/ ~RegOK32(a.r1)]

calli32(rs, m, a, nd) ==
    LET p == push_stack32(rs, m, WAdd(rs[15], W(1)))
    IN  [r |-> sreg32(p.r, W(15), WSub(a.tail, W(1))), m |-> p.m, ub |-> p.ub]

\* a variant of ret32 that takes one slot off the stack whatever its operand
\* is: C20 must tell it apart
ret32OneSlot(rs, m, a, nd) ==
    LET p == pop_stack32(rs, m, W(1), nd.wild)
    IN  [r |-> sreg32(p.r, W(15), WSub(p.val, W(1))), m |-> m, ub |-> p.ub]

\* ret (mipt32.cpp:635): the saved address and mod more slots are taken off
\* the stack; the program counter is set one below the saved address
ret32(rs, m, a, nd) ==
    LET p == pop_stack32(rs, m, WAdd(a.mod, W(1)), nd.wild)
    IN  [r |-> sreg32(p.r, W(15), WSub(p.val, W(1))), m |-> m, ub |-> p.ub]

\* the flag a comparison of x with y leaves in register 16
CmpFlag(x, y) == IF x = y THEN W(0) ELSE IF Lt64(x, y) THEN W(1) ELSE W(2)

cmp32(rs, m, a, nd) ==
    [r |-> sreg32(rs, W(16), CmpFlag(greg32(rs, a.r1, nd.wild), greg32(rs, a.r2, nd.wild))),
     m |-> m, ub |-> ~RegOK32(a.r1) \/ ~RegOK32(a.r2)]

cmpi32(rs, m, a, nd) ==
    [r |-> sreg32(rs, W(16), CmpFlag(greg32(rs, a.r1, nd.wild), a.mod)),
     m |-> m, ub |-> ~RegOK32(a.r1)]

\* the jumps: sreg(15, tail - 1) when the condition on register 16 holds
JumpIf(cond, rs, m, a) ==
    [r |-> IF cond THEN sreg32(rs, W(15), WSub(a.tail, W(1))) ELSE rs,
     m |-> m, ub |-> FALSE]

jmp32(rs, m, a, nd) == JumpIf(TRUE, rs, m, a)
jne32(rs, m, a, nd) == JumpIf(Lt64(Zero, rs[16]), rs, m, a)
jeq32(rs, m, a, nd) == JumpIf(rs[16] = Zero, rs, m, a)
jle32(rs, m, a, nd) == JumpIf(Lt64(rs[16], W(2)), rs, m, a)
jl32(rs, m, a, nd) == JumpIf(rs[16] = W(1), rs, m, a)
jge32(rs, m, a, nd) == JumpIf(rs[16] # W(1), rs, m, a)
jg32(rs, m, a, nd) == JumpIf(rs[16] = W(2), rs, m, a)

---------------------------------------------------------------------------
(* Profile A: switch_c and the emulate loop.                               *)

\* values an uninitialised local of switch_c (word r1, r2, mod) may hold when
\* a handler reads it: register numbers inside the array, among them the
\* program counter, and one outside it
Indeterminate == {W(0), W(1), W(15), W(17)}

\* values an out-of-range read may yield
WildVals == {Zero, W(7)}

\* outcomes of a shift by the full width of the word
ShiftOutcomes == {"zero", "same"}

\* a local of switch_c that the format leaves unset and the handler never reads
Unset == "unset"

\* RI opcodes whose handler reads r1: all but halt and ret
ReadsR1 == RI32 \ {0, 42}

\* the arguments switch_c (mipt32.cpp:729) passes for opcode `type` and
\* operand bits `tail`: r1, r2, mod are set for RR, only mod for RI, r1 and
\* mod for RM, none for J
switch_c32(type, tail) ==
    CASE TYPE32[type] = "RR" ->
            {[r1 |-> W(ts4(tail)), r2 |-> W(tt4(tail)), mod |-> tl16(tail), tail |-> tail]}
      [] TYPE32[type] = "RI" ->
            IF type \in ReadsR1
            THEN {[r1 |-> g, r2 |-> Unset, mod |-> tl20(tail), tail |-> tail] :
                      g \in Indeterminate}
            ELSE {[r1 |-> Unset, r2 |-> Unset, mod |-> tl20(tail), tail |-> tail]}
      [] TYPE32[type] = "RM" ->
            {[r1 |-> W(ts4(tail)), r2 |-> Unset, mod |-> tl20(tail), tail |-> tail]}
      [] TYPE32[type] = "J" ->
            {[r1 |-> Unset, r2 |-> Unset, mod |-> Unset, tail |-> tail]}

\* history of the current run of pushes followed by pops: the stack pointer
\* the run started from, the values pushed and not yet popped, and the last
\* value a pop returned with the value pushed for it
StkIdle == [phase |-> "idle", s0 |-> Zero, vals |-> <<>>, got |-> Zero, want |-> Zero]

StkNext(type, a, rs, m, nd) ==
    IF type = 38 /\ RegOK32(a.r1)
    THEN LET v == WAdd(rs[Val(a.r1)], a.mod)
         IN  IF stk.phase = "push"
             THEN [stk EXCEPT !.vals = Append(@, v)]
             ELSE [StkIdle EXCEPT !.phase = "push", !.s0 = rs[14], !.vals = <<v>>]
    ELSE IF type = 39 /\ stk.phase \in {"push", "pop"}
    THEN LET n == Len(stk.vals)
         IN  [stk EXCEPT !.phase = IF n = 1 THEN "done" ELSE "pop",
                         !.vals = SubSeq(@, 1, n - 1),
                         !.got = pop_stack32(rs, m, W(1), nd.wild).val,
                         !.want = stk.vals[n]]
    ELSE StkIdle

\* a variant of NextPC32 that moves on by two words: C10 must tell it apart
NextPC32Twice(rs) == sreg32(rs, W(15), WAdd(rs[15], W(2)))

\* sreg(15, greg(15) + 1) at the end of an emulate iteration
NextPC32(rs) == sreg32(rs, W(15), WAdd(rs[15], W(1)))

\* one iteration of emulate (mipt32.cpp:907) that ends in handler H: fetch,
\* decode, execute, advance the program counter. After undefined behaviour
\* the process either dies or goes on with what the handler yielded.
Exec32(op, H(_, _, _, _)) ==
    /\ profile = "mipt32"
    /\ \E wv \in WildVals, sh \in ShiftOutcomes :
         LET nd == [wild |-> wv, sh |-> sh]
             row_com == gmem32(mem, regs[15], wv)
             type_code == tf8(row_com)
             tail == tl24(row_com)
         IN  /\ type_code = op
             /\ \E a \in switch_c32(type_code, tail) :
                  LET res == H(regs, mem, a, nd)
                      ub == res.ub \/ ~MemOK32(regs[15])
                  IN  \E dies \in IF ub THEN {TRUE, FALSE} ELSE {FALSE} :
                        /\ status' = IF dies THEN "fault" ELSE "running"
                        /\ regs' = IF dies THEN regs
                                   ELSE NextPC32(res.r)
                        /\ mem' = IF dies THEN mem ELSE res.m
                        /\ last' = [pc |-> regs[15], type |-> type_code, a |-> a, ub |-> ub,
                                  regs |-> regs, mem |-> mem]
                        /\ stk' = IF dies THEN StkIdle ELSE StkNext(type_code, a, regs, mem, nd)
                        /\ calls' = IF type_code = 41 /\ ~dies
                                     THEN calls \cup {[P |-> regs[15], s |-> regs[14]]}
                                     ELSE calls
    /\ UNCHANGED <<profile, wordBits, file, typed, input, label, exitcode, stdin, stdout>>

emulate32_add == /\ status = "running" /\ Exec32(2, add32)
emulate32_addi == /\ status = "running" /\ Exec32(3, addi32)
emulate32_sub == /\ status = "running" /\ Exec32(4, sub32)
emulate32_mul == /\ status = "running" /\ Exec32(6, mul32)
emulate32_muli == /\ status = "running" /\ Exec32(7, muli32)
emulate32_div == /\ status = "running" /\ Exec32(8, div32)
emulate32_lc == /\ status = "running" /\ Exec32(12, lc32)
emulate32_mov == /\ status = "running" /\ Exec32(24, mov32)
emulate32_push == /\ status = "running" /\ Exec32(38, push32)
emulate32_pop == /\ status = "running" /\ Exec32(39, pop32)
emulate32_calli == /\ status = "running" /\ Exec32(41, calli32)
emulate32_ret == /\ status = "running" /\ Exec32(42, ret32)
emulate32_cmp == /\ status = "running" /\ Exec32(43, cmp32)
emulate32_cmpi == /\ status = "running" /\ Exec32(44, cmpi32)
emulate32_jmp == /\ status = "running" /\ Exec32(46, jmp32)
emulate32_jne == /\ status = "running" /\ Exec32(47, jne32)
emulate32_jeq == /\ status = "running" /\ Exec32(48, jeq32)
emulate32_jle == /\ status = "running" /\ Exec32(49, jle32)
emulate32_jl == /\ status = "running" /\ Exec32(50, jl32)
emulate32_jge == /\ status = "running" /\ Exec32(51, jge32)
emulate32_jg == /\ status = "running" /\ Exec32(52, jg32)

---------------------------------------------------------------------------
(* Console input and output, as sequences of character codes.              *)

IsBlankCode(c) == c \in {32, 9, 10, 13}
IsDigitCode(c) == c >= 48 /\ c <= 57

RECURSIVE SkipBlankCodes(_)
SkipBlankCodes(in) ==
    IF in # <<>> /\ IsBlankCode(Head(in)) THEN SkipBlankCodes(Tail(in)) ELSE in

RECURSIVE ScanDigits(_, _, _)
ScanDigits(in, acc, n) ==
    IF in # <<>> /\ IsDigitCode(Head(in))
    THEN ScanDigits(Tail(in), acc * 10 + (Head(in) - 48), n + 1)
    ELSE [val |-> acc, n |-> n, rest |-> in]

\* scanf("%d"): blanks, an optional sign, digits; ok is FALSE when no number
\* could be read and the variable keeps its uninitialised value
ScanInt(in) ==
    LET s1 == SkipBlankCodes(in)
        signed == s1 # <<>> /\ Head(s1) \in {45, 43}
        neg == s1 # <<>> /\ Head(s1) = 45
        d == ScanDigits(IF signed THEN Tail(s1) ELSE s1, 0, 0)
    IN  [ok |-> d.n > 0, val |-> IF neg THEN 0 - d.val ELSE d.val, rest |-> d.rest]

\* printf("%d"): the decimal digits of n, after '-' when n < 0
RECURSIVE NatCodes(_)
NatCodes(n) == IF n < 10 THEN <<48 + n>> ELSE Append(NatCodes(n \div 10), 48 + (n % 10))

IntCodes(n) ==
    IF n >= 0 THEN NatCodes(n)
    ELSE IF n = (0 - 2147483647) - 1 THEN <<45>> \o NatCodes(214748364) \o <<56>>
    ELSE <<45>> \o NatCodes(0 - n)

\* syscall (mipt32.cpp:426) for the services other than 0, 101 and 103: the
\* registers, the input left and the output after it
syscall32(rs, a, nd, in, out) ==
    CASE a.mod = W(100) ->
            LET sc == ScanInt(in)
            IN  [r |-> sreg32(rs, a.r1, IF sc.ok THEN IntToWord(sc.val) ELSE nd.wild),
                 in |-> sc.rest, out |-> out, ub |-> ~sc.ok \/ ~RegOK32(a.r1)]
      [] a.mod = W(102) ->
            [r |-> rs, in |-> in,
             out |-> out \o IntCodes(WordToInt(greg32(rs, a.r1, nd.wild))),
             ub |-> ~RegOK32(a.r1)]
      [] a.mod = W(104) ->
            [r |-> sreg32(rs, a.r1, IF in # <<>> THEN W(Head(in)) ELSE nd.wild),
             in |-> IF in # <<>> THEN Tail(in) ELSE in, out |-> out,
             ub |-> in = <<>> \/ ~RegOK32(a.r1)]
      [] a.mod = W(105) ->
            [r |-> rs, in |-> in,
             out |-> Append(out, greg32(rs, a.r1, nd.wild)[1] % 256),
             ub |-> ~RegOK32(a.r1)]
      [] OTHER -> [r |-> rs, in |-> in, out |-> out, ub |-> FALSE]

\* an emulate iteration that ends in syscall. Service 0 is exit(0); the
\* floating-point services 101 and 103 are outside the model.
emulate32_syscall ==
    /\ profile = "mipt32"
    /\ status = "running"
    /\ \E wv \in WildVals :
         LET nd == [wild |-> wv, sh |-> "zero"]
             row_com == gmem32(mem, regs[15], wv)
             type_code == tf8(row_com)
             tail == tl24(row_com)
         IN  /\ type_code = 1
             /\ tl20(tail) \notin {W(101), W(103)}
             /\ \E a \in switch_c32(type_code, tail) :
                  LET res == syscall32(regs, a, nd, stdin, stdout)
                      ub == res.ub \/ ~MemOK32(regs[15])
                      exits == a.mod = Zero
                  IN  \E dies \in IF ub /\ ~exits THEN {TRUE, FALSE} ELSE {FALSE} :
                        /\ status' = IF exits THEN "exited"
                                     ELSE IF dies THEN "fault" ELSE "running"
                        /\ exitcode' = IF exits THEN <<0>> ELSE exitcode
                        /\ regs' = IF exits \/ dies THEN regs
                                   ELSE NextPC32(res.r)
                        /\ stdin' = IF exits \/ dies THEN stdin ELSE res.in
                        /\ stdout' = IF exits \/ dies THEN stdout ELSE res.out
                        /\ last' = [pc |-> regs[15], type |-> type_code, a |-> a, ub |-> ub,
                                  regs |-> regs, mem |-> mem]
    /\ stk' = StkIdle
    /\ UNCHANGED <<calls, profile, wordBits, file, typed, input, label, mem>>

\* a variant of halt32 that always exits with 0: C9 must tell it apart
halt32Zero(mod) == 0

\* a variant of halt32 that always exits with 1
halt32One(mod) == 1

\* halt (mipt32.cpp:422): the argument of exit, (int) mod
halt32(mod) == WordToInt(mod)

\* an emulate iteration that ends in halt
emulate32_halt ==
    /\ profile = "mipt32"
    /\ status = "running"
    /\ \E wv \in WildVals :
         LET row_com == gmem32(mem, regs[15], wv)
             type_code == tf8(row_com)
             tail == tl24(row_com)
         IN  /\ type_code = 0
             /\ \E a \in switch_c32(type_code, tail) :
                  /\ exitcode' = <<halt32(a.mod)>>
                  /\ last' = [pc |-> regs[15], type |-> type_code, a |-> a,
                              ub |-> ~MemOK32(regs[15]), regs |-> regs, mem |-> mem]
    /\ status' = "exited"
    /\ stk' = StkIdle
    /\ UNCHANGED <<calls, profile, wordBits, file, typed, input, label, mem, regs, stdin, stdout>>

\* an emulate iteration whose opcode is not in TYPE: TYPE.at throws
\* std::out_of_range, nothing catches it, and the process is aborted
NoArgs == [r1 |-> Unset, r2 |-> Unset, mod |-> Unset, tail |-> Unset]

emulate32_unknown ==
    /\ profile = "mipt32"
    /\ status = "running"
    /\ \E wv \in WildVals :
         LET row_com == gmem32(mem, regs[15], wv)
             type_code == tf8(row_com)
         IN  /\ type_code \notin DOMAIN TYPE32
             /\ last' = [pc |-> regs[15], type |-> type_code, a |-> NoArgs,
                         ub |-> ~MemOK32(regs[15]), regs |-> regs, mem |-> mem]
    /\ status' = "aborted"
    /\ stk' = StkIdle
    /\ UNCHANGED <<calls, profile, wordBits, file, typed, input, label, mem, regs, exitcode, stdin, stdout>>

\* main (mipt32.cpp:916) up to the call of emulate: the lines are read and
\* assembled into memory. An exception ends the process, as does a fault.
main32 ==
    /\ profile = "mipt32"
    /\ status = "load"
    /\ \E r \in {assemble32(file_input(file), label, mem, regs)} :
           /\ input' = r.input
           /\ label' = r.label
           /\ mem' = r.mem
           /\ regs' = r.regs
           /\ status' = IF r.err = "ok" THEN "running"
                        ELSE IF r.err = "throw" THEN "aborted" ELSE "fault"
    /\ UNCHANGED <<calls, profile, wordBits, file, typed, exitcode, stdin, stdout, last, stk>>

---------------------------------------------------------------------------
(* Profile B (mipt64.cpp): tables and bit fields. Every value is a dword.  *)

MEMSIZE64 == 2097152

NREGS64 == 33

\* TYPE: opcode -> format. TYPE[type] of an opcode outside the table inserts
\* and yields the empty string.
TYPE64(type) ==
    IF type \in (0..18) \cup (20..27) THEN "RR"
    ELSE IF type = 19 THEN "B"
    ELSE IF type \in {28, 29} THEN "RM"
    ELSE ""

\* CODE of make_comm: mnemonic -> opcode
CodeTable64 ==
    [halt |-> 0, svc |-> 1, add |-> 2, sub |-> 3, mul |-> 4, div |-> 5, mod |-> 6,
     and |-> 7, or |-> 8, xor |-> 9, nand |-> 10, shl |-> 11, shr |-> 12,
     addd |-> 13, subd |-> 14, muld |-> 15, divd |-> 16, itod |-> 17, dtoi |-> 18,
     bl |-> 19, cmp |-> 20, cmpd |-> 21, cne |-> 22, ceq |-> 23, cle |-> 24,
     clt |-> 25, cge |-> 26, cgt |-> 27, ld |-> 28, st |-> 29]

\* CODE[lexemes[0]]: a mnemonic outside the table yields 0
CODE64(str) == IF str \in DOMAIN CodeTable64 THEN CodeTable64[str] ELSE 0

\* REGISTER of make_comm: the symbolic register names
REGISTER64 == [rz |-> 27, fp |-> 28, sp |-> 29, lr |-> 30, pc |-> 31]

\* the bit fields of a command; the numbers in the names count the bits of
\* the 32-bit command from its most significant bit
t0_5(x) == x[2] \div 1024
t6_10(x) == (x[2] \div 32) % 32
t11_15(x) == x[2] % 32
t16_31(x) == x[1]
t16_20(x) == x[1] \div 2048
t21_23(x) == (x[1] \div 256) % 8
t24_31(x) == x[1] % 256
t21_31(x) == x[1] % 2048
t19_31(x) == x[1] + (x[2] % 4) * Limb
t16_18(x) == x[1] \div 8192

\* conversion of a (signed) long n, |n| < 2^31, to dword
ToDword(n) == IF n >= 0 THEN W(n) ELSE Sub64(Zero, W(0 - n))

\* mem is an array of bytes; gmem and smem copy the 8 bytes of a dword, least
\* significant first. The access is inside the array when all 8 bytes are.
MemOK64(adr) == IsSmall(adr) /\ Val(adr) + 8 <= MEMSIZE64

ByteAt(m, i) == IF i \in DOMAIN m THEN m[i] ELSE 0

gmem64(m, adr, wild) ==
    IF ~MemOK64(adr) THEN wild
    ELSE [k \in 1..4 |-> ByteAt(m, Val(adr) + 2 * (k - 1))
                         + 256 * ByteAt(m, Val(adr) + 2 * (k - 1) + 1)]

\* the byte of val stored at offset j of its address
ByteOf(val, j) == (val[(j \div 2) + 1] \div (IF j % 2 = 0 THEN 1 ELSE 256)) % 256

smem64(m, adr, val) ==
    IF ~MemOK64(adr) THEN m
    ELSE LET at == Val(adr)
             set == {at + j : j \in {j \in 0..7 : ByteOf(val, j) # 0}}
             keep == DOMAIN m \ (at..(at + 7))
         IN  [i \in keep \cup set |-> IF i \in set THEN ByteOf(val, i - at) ELSE m[i]]

RegOK64(adr) == IsSmall(adr) /\ Val(adr) < NREGS64

greg64(rs, adr, wild) == IF RegOK64(adr) THEN rs[Val(adr)] ELSE wild

sreg64(rs, adr, val) == IF RegOK64(adr) THEN [rs EXCEPT ![Val(adr)] = val] ELSE rs

---------------------------------------------------------------------------
(* Profile B: the assembler.                                               *)

\* x | y on non-negative integers
RECURSIVE BitOr(_, _)
BitOr(x, y) ==
    IF x = 0 THEN y
    ELSE IF y = 0 THEN x
    ELSE (IF x % 2 = 1 \/ y % 2 = 1 THEN 1 ELSE 0) + 2 * BitOr(x \div 2, y \div 2)

\* a | b on dwords
Or64(a, b) == [k \in 1..4 |-> BitOr(a[k], b[k])]

\* a dword read as long long is negative
IsNeg64(a) == a[4] >= Limb \div 2

\* parse_labels (mipt64.cpp:251), one pass of the for loop at index st.i: the
\* label is bound to 8 * (i - 1); a label-only line is erased, and i advances
\* all the same
parse_labelsStep64(st, k) ==
    IF st.i >= Len(st.input) THEN st
    ELSE Let(split(st.input[st.i + 1]), LAMBDA parts :
        Let(parts[1], LAMBDA first_part :
            IF IsLabelDecl(first_part)
            THEN [i |-> st.i + 1,
                  label |-> (substr(first_part, 0, Len(first_part) - 1)
                                :> ToDword(8 * (st.i - 1))) @@ st.label,
                  input |-> IF Len(parts) = 1
                            THEN SubSeq(st.input, 1, st.i)
                                 \o SubSeq(st.input, st.i + 2, Len(st.input))
                            ELSE [st.input EXCEPT ![st.i + 1] =
                                     substr(@, Len(first_part), Len(@) - Len(first_part))]]
            ELSE [st EXCEPT !.i = @ + 1]))

parse_labels64(inp, lab) ==
    Loop(parse_labelsStep64, [i |-> 0, label |-> lab, input |-> inp], 1, Len(inp))

\* the lexeme without its last character (the comma)
NoComma(lexeme) == substr(lexeme, 0, Len(lexeme) - 1)

\* a register operand S placed at bit sh: a name of REGISTER, or the number
\* after the sigil
RegField64(S, sh) ==
    IF S \in DOMAIN REGISTER64 THEN Shl64(W(REGISTER64[S]), sh)
    ELSE Shl64(ToDword(strtol(substr(S, 1, Len(S) - 1))), sh)

\* S.substr(1, ...) throws std::out_of_range when S is empty
RegThrows64(S) == S \notin DOMAIN REGISTER64 /\ Len(S) = 0

\* label[key]: the value bound to key, 0 for a key that is not in the map
LabelAt64(lab, key) == IF key \in DOMAIN lab THEN lab[key] ELSE Zero

\* label after label[key]: an absent key is inserted with 0
LabelIns64(lab, key) == IF key \in DOMAIN lab THEN lab ELSE (key :> Zero) @@ lab

\* a branch offset lim = target - pc as make_comm encodes it: the magnitude
\* or-ed into the command, and 1 << 20 added when lim < 0
BranchBits64(coded, target, pc) ==
    LET lim == Sub64(target, pc)
    IN  IF IsNeg64(lim) THEN Or64(Add64(coded, Shl64(W(1), 20)), Sub64(Zero, lim))
        ELSE Or64(coded, lim)

\* the tail ri, bits, im of a register-indexed operand (lexemes 3, 4, 5)
IndexBits64(lexemes) ==
    Add64(Add64(RegField64(NoComma(Lex(lexemes, 3)), 11),
                Shl64(ToDword(strtol(Lex(lexemes, 4))), 8)),
          ToDword(strtol(Lex(lexemes, 5))))

Made64(err, coded, lab) == [err |-> err, coded |-> coded, label |-> lab]

\* make_comm for the formats RR and RM (mipt64.cpp:311-389): rd, then rs or
\* ra, then a label (RR only), a literal or an indexed operand
make_commR64(lexemes, coded, lab, isRR) ==
    IF ~HasLex(lexemes, 1) THEN Made64("ub", Zero, lab)
    ELSE IF RegThrows64(NoComma(Lex(lexemes, 1))) THEN Made64("throw", Zero, lab)
    ELSE IF ~HasLex(lexemes, 2) THEN Made64("ub", Zero, lab)
    ELSE
    LET rd == RegField64(NoComma(Lex(lexemes, 1)), 21)
        SRS == NoComma(Lex(lexemes, 2))
        rs == RegField64(SRS, 16)
        lit == IF isRR THEN Shr64(rs, 16) = W(27)
               ELSE Shr64(rs, 16) \in {W(31), W(27), W(29)}
    IN  IF isRR /\ Lex(lexemes, 2) \in DOMAIN lab
        THEN Made64("ok", Add64(coded, Add64(Add64(rd, Shl64(W(27), 16)),
                                             lab[Lex(lexemes, 2)])), lab)
        ELSE IF RegThrows64(SRS) THEN Made64("throw", Zero, lab)
        ELSE IF ~HasLex(lexemes, 3) THEN Made64("ub", Zero, lab)
        ELSE IF isRR /\ Lex(lexemes, 3) \in DOMAIN lab
        THEN Made64("ok", Add64(coded, Add64(Add64(rd, rs), lab[Lex(lexemes, 3)])), lab)
        ELSE IF lit
        THEN Made64("ok", Add64(coded, Add64(Add64(rd, rs),
                                             ToDword(strtol(Lex(lexemes, 3))))), lab)
        ELSE IF RegThrows64(NoComma(Lex(lexemes, 3))) THEN Made64("throw", Zero, lab)
        ELSE IF ~HasLex(lexemes, 5) THEN Made64("ub", Zero, lab)
        ELSE Made64("ok", Add64(coded, Add64(Add64(rd, rs), IndexBits64(lexemes))), lab)

\* make_comm for the format B (mipt64.cpp:390-428)
make_commB64(lexemes, coded, pc, lab, rs) ==
    IF ~HasLex(lexemes, 1) THEN Made64("ub", Zero, lab)
    ELSE IF Lex(lexemes, 1) \in DOMAIN lab
    THEN Made64("ok", BranchBits64(coded, lab[Lex(lexemes, 1)], pc), lab)
    ELSE
    LET fp == NoComma(Lex(lexemes, 1))
    IN  IF fp \in DOMAIN REGISTER64
        THEN IF ~HasLex(lexemes, 2) THEN Made64("ub", Zero, lab)
             ELSE IF REGISTER64[fp] = 27
             THEN Made64("ok", Add64(coded, Add64(Shl64(W(27), 21),
                                                  LabelAt64(lab, Lex(lexemes, 2)))),
                         LabelIns64(lab, Lex(lexemes, 2)))
             ELSE IF REGISTER64[fp] = 31
             THEN Made64("ok", BranchBits64(coded, LabelAt64(lab, fp), pc),
                         LabelIns64(lab, fp))
             ELSE Made64("ok", coded, lab)
        ELSE IF Len(fp) = 0 THEN Made64("throw", Zero, lab)
        ELSE IF ~HasLex(lexemes, 4) THEN Made64("ub", Zero, lab)
        ELSE
        LET ra == ToDword(strtol(substr(fp, 1, Len(fp) - 1)))
            ri == ToDword(strtol(substr(Lex(lexemes, 2), 1, Len(Lex(lexemes, 2)) - 1)))
            bits == ToDword(strtol(Lex(lexemes, 4)))
            im == ToDword(strtol(Lex(lexemes, 4)))
        IN  IF ~RegOK64(ra) \/ ~RegOK64(ri) \/ ~IsSmall(bits) \/ Val(bits) >= 64
            THEN Made64("ub", Zero, lab)
            ELSE Made64("ok",
                        Add64(coded,
                              Add64(Shl64(W(31), 21),
                                    Add64(Add64(rs[Val(ra)], Shl64(rs[Val(ri)], Val(bits))),
                                          im))),
                        lab)

\* make_comm (mipt64.cpp:268): the command of the lexemes of one line at
\* output position pc, and the label map after it
make_comm64(lexemes, pc, lab, rs) ==
    LET code == CODE64(Lex(lexemes, 0))
        coded == Shl64(W(code), 26)
    IN  CASE TYPE64(code) = "RR" -> make_commR64(lexemes, coded, lab, TRUE)
          [] TYPE64(code) = "RM" -> make_commR64(lexemes, coded, lab, FALSE)
          [] TYPE64(code) = "B" -> make_commB64(lexemes, coded, pc, lab, rs)

\* the smem(pc, 0) loop of a `bytes` directive, one pass
bytesStep64(st, j) == [m |-> smem64(st.m, st.pc, Zero), pc |-> Add64(st.pc, W(8))]

\* the for loop of assemble (mipt64.cpp:438), one pass: line k of inp at
\* output position st.pc. st.done: the loop was left (by `end` or by a
\* failure, st.err).
assembleStep64(inp, st, k) ==
    IF st.done THEN st
    ELSE Let(split(inp[k + 1]), LAMBDA splited :
        IF Lex(splited, 0) \in {"end", "word", "double", "bytes"} /\ ~HasLex(splited, 1)
        THEN [st EXCEPT !.done = TRUE, !.err = "ub"]
        ELSE IF Lex(splited, 0) = "end"
        THEN [st EXCEPT !.done = TRUE,
                        !.regs = sreg64(@, W(31),
                                        Add64(LabelAt64(st.label, Lex(splited, 1)), W(8))),
                        !.label = LabelIns64(@, Lex(splited, 1))]
        ELSE IF Lex(splited, 0) = "word"
        THEN IF ~MemOK64(st.pc) THEN [st EXCEPT !.done = TRUE, !.err = "ub"]
             ELSE [st EXCEPT !.mem = smem64(@, st.pc, ToDword(strtol(Lex(splited, 1)))),
                             !.pc = Add64(@, W(8))]
        ELSE IF Lex(splited, 0) = "double"
        THEN IF ~MemOK64(st.pc) THEN [st EXCEPT !.done = TRUE, !.err = "ub"]
             ELSE [st EXCEPT !.mem = smem64(@, st.pc, DoubleBits(Lex(splited, 1))),
                             !.pc = Add64(@, W(8))]
        ELSE IF Lex(splited, 0) = "bytes"
        THEN Let(strtol(Lex(splited, 1)), LAMBDA size :
                 IF size < 0 \/ ~IsSmall(st.pc) \/ Val(st.pc) + size + 8 > MEMSIZE64
                 THEN [st EXCEPT !.done = TRUE, !.err = "ub"]
                 ELSE Let(Loop(bytesStep64, [m |-> st.mem, pc |-> st.pc],
                               1, size \div 8),
                          LAMBDA b :
                              [st EXCEPT
                                 !.pc = b.pc,
                                 !.mem = IF size % 8 > 4 THEN smem64(b.m, b.pc, Zero)
                                         ELSE IF size % 8 > 0
                                         THEN smem64(b.m, b.pc,
                                                     Low32(gmem64(b.m, b.pc, Zero)))
                                         ELSE b.m]))
        ELSE Let(make_comm64(splited, st.pc, st.label, st.regs), LAMBDA c :
                 IF c.err # "ok" \/ ~MemOK64(st.pc)
                 THEN [st EXCEPT !.done = TRUE,
                                 !.err = IF c.err # "ok" THEN c.err ELSE "ub"]
                 ELSE [st EXCEPT !.mem = smem64(@, st.pc, c.coded),
                                 !.pc = Add64(@, W(8)),
                                 !.label = c.label]))

\* assemble (mipt64.cpp:435): parse_labels, the encode loop, then the stack
\* pointer and the register rz
assemble64(inp, lab, m, rs) ==
    Let(parse_labels64(inp, lab), LAMBDA pl :
        Let(Loop(LAMBDA st, k : assembleStep64(pl.input, st, k),
                 [done |-> FALSE, err |-> "ok", pc |-> Zero, mem |-> m, regs |-> rs,
                  label |-> pl.label],
                 0, Len(pl.input) - 1),
            LAMBDA res :
                [err |-> res.err, input |-> pl.input, label |-> res.label,
                 mem |-> res.mem,
                 regs |-> sreg64(sreg64(res.regs, W(29), W(MEMSIZE64 - 8)), W(27), Zero)]))

---------------------------------------------------------------------------
(* Profile B: switch_c, the handlers and the emulate loop.                 *)

\* the operand of an indexed form: (greg(ri) << bits) + im
Indexed64(rs, ri, bits, im) == Add64(Shl64(rs[ri], bits), W(im))

\* the arguments switch_c (mipt64.cpp:709) passes for the command `row`: all
\* four start at 0. (The floating-point operand of the opcodes 13..16 is
\* outside the model.)
switch_c64(row, rs) ==
    LET type == t0_5(row)
        none == [type |-> type, rd |-> 0, rs |-> 0, imm |-> Zero, ra |-> 0]
    IN  CASE TYPE64(type) = "RR" ->
                [none EXCEPT !.rd = t6_10(row), !.rs = t11_15(row),
                             !.imm = IF t11_15(row) \in {27, 31} THEN W(t16_31(row))
                                     ELSE Indexed64(rs, t16_20(row), t21_23(row),
                                                    t24_31(row))]
          [] TYPE64(type) = "RM" ->
                [none EXCEPT !.rd = t6_10(row), !.ra = t11_15(row),
                             !.imm = IF t11_15(row) \in {27, 29, 31} THEN W(t16_31(row))
                                     ELSE IF t16_20(row) = 27 THEN W(t21_31(row))
                                     ELSE Add64(rs[t11_15(row)],
                                                Indexed64(rs, t16_20(row), t21_23(row),
                                                          t24_31(row)))]
          [] TYPE64(type) = "B" ->
                [none EXCEPT !.ra = t6_10(row),
                             !.imm = IF t6_10(row) \in {27, 31, 0} THEN W(t21_31(row))
                                     ELSE Add64(rs[t6_10(row)],
                                                Indexed64(rs, t11_15(row), t16_18(row),
                                                          t19_31(row)))]
          [] OTHER -> none

\* halt (mipt64.cpp:476): the argument of exit, (int) imm
halt64(imm) == WordToInt(imm)

\* printf("%lld") of a dword whose magnitude, read as long long, is below
\* 2^31, as are all values the model's runs print
Print64(v) ==
    IF IsNeg64(v) THEN <<45>> \o NatCodes(Val(Sub64(Zero, v))) ELSE NatCodes(Val(v))

\* svc (mipt64.cpp:480) for the services other than 0, 101 and 103: the
\* registers, the input left and the output after it
svc64(rs, a, wild, in, out) ==
    CASE a.imm = W(100) ->
            LET sc == ScanInt(in)
            IN  [r |-> sreg64(rs, W(a.rd), IF sc.ok THEN ToDword(sc.val) ELSE wild),
                 in |-> sc.rest, out |-> out, ub |-> ~sc.ok]
      [] a.imm = W(102) ->
            [r |-> rs, in |-> in,
             out |-> out \o Print64(IF a.rd \in {30, 31}
                                    THEN Add64(Shr64(rs[a.rd], 1), W(4))
                                    ELSE rs[a.rd]),
             ub |-> FALSE]
      [] a.imm = W(104) ->
            [r |-> sreg64(rs, W(a.rd), IF in # <<>> THEN W(Head(in)) ELSE wild),
             in |-> IF in # <<>> THEN Tail(in) ELSE in, out |-> out, ub |-> in = <<>>]
      [] a.imm = W(105) ->
            [r |-> rs, in |-> in, out |-> Append(out, rs[a.rd][1] % 256), ub |-> FALSE]
      [] OTHER -> [r |-> rs, in |-> in, out |-> out, ub |-> FALSE]

add64(rs, a) ==
    IF a.rd = 31 /\ a.rs = 31 THEN sreg64(rs, W(a.rd), a.imm)
    ELSE sreg64(rs, W(a.rd), Add64(rs[a.rs], a.imm))

sub64(rs, a) == sreg64(rs, W(a.rd), Sub64(rs[a.rs], a.imm))

RECURSIVE BitAnd(_, _)
BitAnd(x, y) ==
    IF x = 0 \/ y = 0 THEN 0
    ELSE (IF x % 2 = 1 /\ y % 2 = 1 THEN 1 ELSE 0) + 2 * BitAnd(x \div 2, y \div 2)

\* a & b
And64(a, b) == [k \in 1..4 |-> BitAnd(a[k], b[k])]

\* a ^ b = (a | b) - (a & b)
Xor64(a, b) == [k \in 1..4 |-> BitOr(a[k], b[k]) - BitAnd(a[k], b[k])]

nand64(rs, a) == sreg64(rs, W(a.rd), And64(Xor64(rs[a.rs], a.imm), rs[a.rs]))

\* cmp (mipt64.cpp:646): three tests of greg(rd) against greg(rs) + imm, each
\* writing the flag register 32; exactly one of them is true
cmp64(rs, a) ==
    LET x == rs[a.rd]
        y == Add64(rs[a.rs], a.imm)
    IN  sreg64(rs, W(32), IF x = y THEN W(0) ELSE IF Lt64(x, y) THEN W(1) ELSE W(2))

cne64(rs, a) == IF Lt64(Zero, rs[32]) THEN add64(rs, a) ELSE rs

ceq64(rs, a) == IF rs[32] = W(0) THEN add64(rs, a) ELSE rs

\* cle with the test of clt
cle64Strict(rs, a) == IF rs[32] = W(1) THEN add64(rs, a) ELSE rs

cle64(rs, a) == IF Lt64(rs[32], W(2)) THEN add64(rs, a) ELSE rs

clt64(rs, a) == IF rs[32] = W(1) THEN add64(rs, a) ELSE rs

cge64(rs, a) == IF rs[32] # W(1) THEN add64(rs, a) ELSE rs

cgt64(rs, a) == IF rs[32] = W(2) THEN add64(rs, a) ELSE rs

\* bl (mipt64.cpp:631): the link register takes the program counter; the
\* program counter takes imm (ra = rz) or moves back by imm, with bit 63 of
\* imm cleared when its bit 20 is set
bl64(rs, a) ==
    LET rs1 == sreg64(rs, W(30), rs[31])
    IN  IF a.ra = 27 THEN sreg64(rs1, W(31), a.imm)
        ELSE IF Bit(a.imm, 20) = 1
        THEN sreg64(rs1, W(31), Sub64(rs1[31], Shr64(Shl64(a.imm, 1), 1)))
        ELSE sreg64(rs1, W(31), Sub64(rs1[31], a.imm))

\* an opcode without a case in switch_c: nothing is done
nothing64(rs, a) == rs

\* div and mod (mipt64.cpp:536-542): greg(rs) / imm and greg(rs) % imm on
\* dwords. A zero divisor is undefined behaviour; a build that goes on leaves
\* an arbitrary value in rd.
div64(rs, m, a, wild) ==
    [r |-> sreg64(rs, W(a.rd), IF a.imm = Zero THEN wild
                               ELSE DivMod64(rs[a.rs], a.imm).quot),
     m |-> m, ub |-> a.imm = Zero]

mod64(rs, m, a, wild) ==
    [r |-> sreg64(rs, W(a.rd), IF a.imm = Zero THEN wild
                               ELSE DivMod64(rs[a.rs], a.imm).rem),
     m |-> m, ub |-> a.imm = Zero]

\* push_stack(val, x) (mipt64.cpp:187): the stack pointer moves down by x
\* bytes, then val is stored at it
push_stack64(rs, m, val, x) ==
    LET rs1 == sreg64(rs, W(29), Sub64(rs[29], x))
    IN  [r |-> rs1, m |-> smem64(m, rs1[29], val), ub |-> ~MemOK64(rs1[29])]

\* pop_stack(x) (mipt64.cpp:196): the dword at the stack pointer is read,
\* then the stack pointer moves up by x bytes
pop_stack64(rs, m, x, wild) ==
    [val |-> gmem64(m, rs[29], wild),
     r |-> sreg64(rs, W(29), Add64(rs[29], x)),
     ub |-> ~MemOK64(rs[29])]

\* ld (mipt64.cpp:688): a pop when ra is the stack pointer, else a load from
\* greg(ra) + imm
ld64(rs, m, a, wild) ==
    IF a.ra = 29
    THEN LET p == pop_stack64(rs, m, a.imm, wild)
         IN  [r |-> sreg64(p.r, W(a.rd), p.val), m |-> m, ub |-> p.ub]
    ELSE [r |-> sreg64(rs, W(a.rd), gmem64(m, Add64(rs[a.ra], a.imm), wild)),
          m |-> m, ub |-> ~MemOK64(Add64(rs[a.ra], a.imm))]

\* st (mipt64.cpp:696): a push when ra is the stack pointer, else a store to
\* greg(ra) + imm
st64(rs, m, a, wild) ==
    IF a.ra = 29 THEN push_stack64(rs, m, rs[a.rd], a.imm)
    ELSE [r |-> rs, m |-> smem64(m, Add64(rs[a.ra], a.imm), rs[a.rd]),
          ub |-> ~MemOK64(Add64(rs[a.ra], a.imm))]

\* sreg(31, greg(31) + 8) at the end of an emulate iteration
NextPC64(rs) == sreg64(rs, W(31), Add64(rs[31], W(8)))

\* one iteration of emulate (mipt64.cpp:840) whose opcode is in ops and whose
\* handler is H: fetch, decode, execute, advance the program counter. A fetch
\* outside mem is undefined behaviour: the process dies or goes on with an
\* arbitrary command.
Exec64(ops, H(_, _)) ==
    /\ profile = "mipt64"
    /\ \E wv \in WildVals :
         LET row_com == gmem64(mem, regs[31], wv)
             a == switch_c64(row_com, regs)
             ub == ~MemOK64(regs[31])
         IN  /\ a.type \in ops
             /\ \E dies \in IF ub THEN {TRUE, FALSE} ELSE {FALSE} :
                  /\ status' = IF dies THEN "fault" ELSE "running"
                  /\ regs' = IF dies THEN regs ELSE NextPC64(H(regs, a))
                  /\ last' = [pc |-> regs[31], type |-> a.type, a |-> a, ub |-> ub,
                              regs |-> regs, mem |-> mem]
    /\ stk' = StkIdle
    /\ UNCHANGED <<calls, profile, wordBits, file, typed, input, label, mem, exitcode, stdin, stdout>>

emulate64_add == /\ status = "running" /\ Exec64({2}, add64)
emulate64_sub == /\ status = "running" /\ Exec64({3}, sub64)
emulate64_bl == /\ status = "running" /\ Exec64({19}, bl64)
emulate64_nand == /\ status = "running" /\ Exec64({10}, nand64)
emulate64_cmp == /\ status = "running" /\ Exec64({20}, cmp64)
emulate64_cne == /\ status = "running" /\ Exec64({22}, cne64)
emulate64_ceq == /\ status = "running" /\ Exec64({23}, ceq64)
emulate64_cle == /\ status = "running" /\ Exec64({24}, cle64)
emulate64_clt == /\ status = "running" /\ Exec64({25}, clt64)
emulate64_cge == /\ status = "running" /\ Exec64({26}, cge64)
emulate64_cgt == /\ status = "running" /\ Exec64({27}, cgt64)
emulate64_unknown == /\ status = "running" /\ Exec64(30..63, nothing64)

\* one iteration of emulate that ends in the handler H of opcode op, a handler
\* that may leave defined behaviour (ld, st, div, mod). After undefined
\* behaviour the process either dies or goes on with what the handler yielded.
ExecMem64(op, H(_, _, _, _)) ==
    /\ profile = "mipt64"
    /\ \E wv \in WildVals :
         LET row_com == gmem64(mem, regs[31], wv)
             a == switch_c64(row_com, regs)
             res == H(regs, mem, a, wv)
             ub == res.ub \/ ~MemOK64(regs[31])
         IN  /\ a.type = op
             /\ \E dies \in IF ub THEN {TRUE, FALSE} ELSE {FALSE} :
                  /\ status' = IF dies THEN "fault" ELSE "running"
                  /\ regs' = IF dies THEN regs ELSE NextPC64(res.r)
                  /\ mem' = IF dies THEN mem ELSE res.m
                  /\ last' = [pc |-> regs[31], type |-> a.type, a |-> a, ub |-> ub,
                              regs |-> regs, mem |-> mem]
    /\ stk' = StkIdle
    /\ UNCHANGED <<calls, profile, wordBits, file, typed, input, label, exitcode, stdin, stdout>>

emulate64_ld == /\ status = "running" /\ ExecMem64(28, ld64)
emulate64_st == /\ status = "running" /\ ExecMem64(29, st64)
emulate64_div == /\ status = "running" /\ ExecMem64(5, div64)
emulate64_mod == /\ status = "running" /\ ExecMem64(6, mod64)

\* an emulate iteration that ends in svc. Service 0 is exit(0); the
\* floating-point services 101 and 103 are outside the model.
emulate64_svc ==
    /\ profile = "mipt64"
    /\ status = "running"
    /\ \E wv \in WildVals :
         LET row_com == gmem64(mem, regs[31], wv)
             a == switch_c64(row_com, regs)
             res == svc64(regs, a, wv, stdin, stdout)
             ub == res.ub \/ ~MemOK64(regs[31])
             exits == a.imm = Zero
         IN  /\ a.type = 1
             /\ a.imm \notin {W(101), W(103)}
             /\ \E dies \in IF ub /\ ~exits THEN {TRUE, FALSE} ELSE {FALSE} :
                  /\ status' = IF exits THEN "exited"
                               ELSE IF dies THEN "fault" ELSE "running"
                  /\ exitcode' = IF exits THEN <<0>> ELSE exitcode
                  /\ regs' = IF exits \/ dies THEN regs ELSE NextPC64(res.r)
                  /\ stdin' = IF exits \/ dies THEN stdin ELSE res.in
                  /\ stdout' = IF exits \/ dies THEN stdout ELSE res.out
                  /\ last' = [pc |-> regs[31], type |-> a.type, a |-> a, ub |-> ub,
                              regs |-> regs, mem |-> mem]
    /\ stk' = StkIdle
    /\ UNCHANGED <<calls, profile, wordBits, file, typed, input, label, mem>>

\* an emulate iteration that ends in halt
emulate64_halt ==
    /\ profile = "mipt64"
    /\ status = "running"
    /\ \E wv \in WildVals :
         LET row_com == gmem64(mem, regs[31], wv)
             a == switch_c64(row_com, regs)
         IN  /\ a.type = 0
             /\ exitcode' = <<halt64(a.imm)>>
             /\ last' = [pc |-> regs[31], type |-> a.type, a |-> a,
                         ub |-> ~MemOK64(regs[31]), regs |-> regs, mem |-> mem]
    /\ status' = "exited"
    /\ stk' = StkIdle
    /\ UNCHANGED <<calls, profile, wordBits, file, typed, input, label, mem, regs, stdin, stdout>>

\* main (mipt64.cpp:847) up to the call of emulate
main64 ==
    /\ profile = "mipt64"
    /\ status = "load"
    /\ \E r \in {assemble64(file_input(file), label, mem, regs)} :
           /\ input' = r.input
           /\ label' = r.label
           /\ mem' = r.mem
           /\ regs' = r.regs
           /\ status' = IF r.err = "ok" THEN "running"
                        ELSE IF r.err = "throw" THEN "aborted" ELSE "fault"
    /\ UNCHANGED <<calls, profile, wordBits, file, typed, exitcode, stdin, stdout, last, stk>>

---------------------------------------------------------------------------
(* The runs of Profile A: the contents of input.fasm and of the input      *)
(* stream.                                                                 *)

\* the example of the file header (mipt32.cpp:13-18)
FileHeader ==
    <<"syscall r0, 100 ; number input", "addi r0, 1 ; number increase",
      "syscall r0, 102 ; number output", "lc r1, 10 ; newline symbol load",
      "syscall r1, 105 ; newline symbol output", " syscall r1, 0 ; exit">>

\* two pushes, two pops
FileStack ==
    <<"push r0, 5", "push r0, 6", "pop r1, 0", "pop r2, 0", "halt r0, 0">>

\* a push with the stack pointer at 0
FileStackLow ==
    <<"mov r14, r0, 0", "push r0, 5", "pop r1, 0", "halt r0, 0">>

\* every conditional jump under the flag of a comparison that finds Equal,
\* Less and Greater; r2 counts the jumps not taken
FileJumpsEq ==
    <<"cmp r0, r0, 0", "jne Ejne", "mov r2, r2, 1", "Ejne:", "jeq Ejeq",
      "mov r2, r2, 1", "Ejeq:", "jle Ejle", "mov r2, r2, 1", "Ejle:",
      "jl Ejl", "mov r2, r2, 1", "Ejl:", "jge Ejge", "mov r2, r2, 1",
      "Ejge:", "jg Ejg", "mov r2, r2, 1", "Ejg:", "halt r0, 0">>

FileJumpsLt ==
    <<"mov r1, r0, 1", "cmp r0, r1, 0", "jne Ljne", "mov r2, r2, 1", "Ljne:",
      "jeq Ljeq", "mov r2, r2, 1", "Ljeq:", "jle Ljle", "mov r2, r2, 1",
      "Ljle:", "jl Ljl", "mov r2, r2, 1", "Ljl:", "jge Ljge",
      "mov r2, r2, 1", "Ljge:", "jg Ljg", "mov r2, r2, 1", "Ljg:",
      "halt r0, 0">>

FileJumpsGt ==
    <<"mov r1, r0, 1", "cmp r1, r0, 0", "jne Gjne", "mov r2, r2, 1", "Gjne:",
      "jeq Gjeq", "mov r2, r2, 1", "Gjeq:", "jle Gjle", "mov r2, r2, 1",
      "Gjle:", "jl Gjl", "mov r2, r2, 1", "Gjl:", "jge Gjge",
      "mov r2, r2, 1", "Gjge:", "jg Gjg", "mov r2, r2, 1", "Gjg:",
      "halt r0, 0">>

\* jmp and calli to labels on lines of their own, and ret
FileCall ==
    <<"jmp S", "halt r0, 3", "S:", "calli F", "halt r0, 4", "F:", "add r3, r3, 1",
      "ret 0">>

\* a label declared on the line of an instruction
FileSameLine ==
    <<"jmp S", "halt r0, 3", "L: halt r0, 7", "S:", "jmp L">>

\* comparisons of -1 with 0
FileCmp ==
    <<"mov r1, r0, 0", "sub r1, r0, 1", "cmp r1, r0, 0", "cmp r0, r1, 0",
      "cmp r1, r1, 0", "cmpi r1, 0", "halt r0, 0">>

\* 17 / 5 with high half 0, then with high half 1, then a division by 0
FileDiv ==
    <<"mov r1, r0, 17", "mov r3, r0, 5", "div r1, r3, 0", "mov r1, r0, 17",
      "mov r2, r0, 1", "div r1, r3, 0", "div r1, r0, 0", "halt r0, 1">>

\* products of 32-bit values that need more than 32 bits, and one that does not
FileMul ==
    <<"mov r1, r0, 65535", "add r1, r1, 2", "mov r3, r0, 65535", "mul r1, r3, 0",
      "mul r3, r3, 0", "muli r1, 3", "halt r0, 0">>

\* a data word given as a negative literal
FileWordNeg ==
    <<"halt r0, 1", "word -1">>

\* commands with negative and over-wide literals, and one with a literal
\* that fits its field
FileImm ==
    <<"halt r0, 0", "mov r1, r0, -1", "mov r1, r2, 65536", "lc r1, 16777216",
      "addi r3, -1", "mov r1, r2, 7">>

\* a program without halt: the run goes on into untouched memory
FilePastEnd ==
    <<"mov r1, r0, 3", "add r1, r1, 2">>

\* a mov into the program counter
FileMovPC ==
    <<"mov r15, r0, 2", "halt r0, 1", "halt r0, 2", "halt r0, 3", "halt r0, 300">>

\* a division that leaves 3 in the flag register, then jle
FileFlag3 ==
    <<"mov r2, r0, 4", "jle L", "halt r0, 9", "L:", "div r15, r2, 0">>

\* a word whose opcode (10) is not in TYPE
FileUnknown ==
    <<"add r1, r1, 2", "word 167772160", "halt r0, 1">>

\* a jump to a label that is declared nowhere (the run starts at S)
FileNoLabel ==
    <<"halt r0, 5", "S:", "jmp Q", "end S">>

\* an end directive naming a label that is declared nowhere
FileNoEnd ==
    <<"halt r0, 4", "halt r0, 5", "end Z">>

\* data directives before the entry label of an end directive
FileEnd ==
    <<"word 7", "double 2.5", "S:", "halt r0, 2", "halt r0, 3", "end S">>

\* a call whose ret takes two more slots off the stack
FileRet ==
    <<"calli F", "halt r0, 4", "F:", "add r1, r1, 1", "ret 2">>

\* a call inside a call, and a ret whose saved slot was overwritten
FileNested ==
    <<"mov r1, r0, 3", "calli F", "halt r0, 4", "F:", "calli G", "ret 0", "G:",
      "add r1, r1, 1", "ret 0">>

\* a double directive on the last line
FileDoubleLast ==
    <<"halt r0, 2", "double 2.5">>

\* two label-only lines in a row
FileTwoLabels ==
    <<"halt r0, 3", "A:", "B:", "halt r0, 7", "end A">>

\* the character codes of a string of digits, '-' and blanks
CodeOf(c) ==
    IF IsDigit(c) THEN 48 + DigitVal(c)
    ELSE IF c = "-" THEN 45 ELSE IF c = "\n" THEN 10 ELSE 32

Codes(str) == [i \in 1..Len(str) |-> CodeOf(CharAt(str, i - 1))]

Runs32 ==
    {[file |-> FileHeader, stdin |-> Codes(t)] : t \in {"41", "-1", " 7 8", ""}}
    \cup {[file |-> f, stdin |-> <<>>] :
            f \in {FileStack, FileStackLow, FileJumpsEq, FileJumpsLt, FileJumpsGt,
                   FileCall, FileSameLine, FileCmp, FileDiv, FileMovPC, FileFlag3,
                   FileUnknown, FileTwoLabels, FileNoLabel, FileNoEnd, FileEnd,
                   FileRet, FileNested, FileDoubleLast, FileMul, FileWordNeg,
                   FileImm, FilePastEnd}}

---------------------------------------------------------------------------
(* The runs of Profile B.                                                  *)

\* bl to a label declared before it (the run starts at M)
FileBlBack ==
    <<"add r1, rz, 5", "L:", "halt r0, rz, 2", "M:", "bl L", "end M">>

\* bl to a label declared two commands after it (the run starts at S)
FileBlFwd ==
    <<"halt r0, rz, 9", "S:", "bl L", "halt r0, rz, 1", "halt r0, rz, 3", "L:",
      "halt r0, rz, 2", "end S">>

\* bl to a label declared right after it
FileBlNext ==
    <<"bl S", "S:", "halt r0, rz, 4">>

\* input, arithmetic, output, exit by service 0
FileSvc ==
    <<"svc r1, rz, 100", "add r1, r1, r0, 0, 1", "sub r2, rz, 1", "svc r1, rz, 102",
      "svc r2, rz, 102", "svc r0, rz, 0">>

\* a word whose opcode (30) has no case in switch_c
FileNoCase ==
    <<"word 2013265920", "halt r0, rz, 3">>

\* halt with an indexed operand
FileHaltIndexed ==
    <<"add r3, rz, 300", "halt r0, r0, r3, 0, 7">>

\* pushes and pops with the operands 8, 16 and 0, then a store and a load
\* at address 200
FileStack64 ==
    <<"add r1, rz, 5", "st r1, sp, 8", "add r1, rz, 6", "st r1, sp, 16",
      "ld r2, sp, 16", "ld r3, sp, 0", "st r1, r0, rz, 0, 200",
      "ld r4, r0, rz, 0, 200", "halt r0, rz, 0">>

\* a store and a load at the address 2^64 - 8
FileMemHigh64 ==
    <<"sub r6, rz, 8", "add r1, rz, 5", "st r1, r6, rz, 0, 0", "ld r2, r6, rz, 0, 0",
      "halt r0, rz, 3">>

\* 17 / 5 and 17 % 5, then a division and a modulo by 0
FileDiv64 ==
    <<"add r1, rz, 17", "div r2, r1, r0, 0, 5", "mod r3, r1, r0, 0, 5",
      "div r4, r1, r0, 0, 0", "mod r5, r1, r0, 0, 0", "halt r0, rz, 1">>

\* an end directive naming a label that is declared nowhere
FileNoEnd64 ==
    <<"halt r0, rz, 4", "halt r0, rz, 5", "end Z">>

\* data directives before the entry label of an end directive
FileWord64 ==
    <<"word 7", "double 2.5", "S:", "halt r0, rz, 2", "halt r0, rz, 3", "end S">>

FileBytes64 ==
    <<"bytes 4", "S:", "halt r0, rz, 2", "halt r0, rz, 3", "end S">>

FileBytes16 ==
    <<"bytes 16", "S:", "halt r0, rz, 2", "halt r0, rz, 3", "end S">>

\* stores and loads through a base register and a shifted index register
FileIndexed64 ==
    <<"add r1, rz, 200", "add r2, rz, 5", "st r2, r1, r0, 0, 8", "ld r3, rz, 208",
      "ld r4, rz, 408", "ld r5, r1, r0, 0, 8", "add r6, rz, 3",
      "st r2, r0, r6, 2, 200", "ld r7, rz, 212", "ld r8, r0, r6, 2, 200",
      "halt r0, rz, 0">>

\* a label as the literal operand of add
FileLabelImm64 ==
    <<"add r1, rz, D", "halt r0, rz, 0", "D:", "word 7">>

\* two label-only lines in a row
FileTwoLabels64 ==
    <<"halt r0, rz, 3", "A:", "B:", "halt r0, rz, 7", "end A">>

\* the six conditional additions after a comparison of 5 with k
FileCond64(k) ==
    <<"add r1, rz, 5", "cmp r1, rz, " \o k, "cne r2, rz, 1", "ceq r3, r1, r0, 0, 1",
      "cle r4, rz, 1", "clt r5, r1, r1, 1, 2", "cge r6, rz, 1", "cgt r1, r1, r0, 0, 1",
      "halt r0, rz, 0">>

\* nand of 5 and 3, of 0 and 3, and of a register of ones and 3
FileNand64 ==
    <<"add r1, rz, 5", "nand r2, r1, r0, 0, 3", "nand r3, rz, 3", "sub r4, rz, 1",
      "nand r5, r4, r0, 0, 3", "halt r0, rz, 0">>

\* rz as the destination of an addition, then as a source
FileRz64 ==
    <<"add r1, rz, 7", "add rz, rz, 5", "add r1, rz, 7", "halt r0, rz, 0">>

Runs64 ==
    {[file |-> FileSvc, stdin |-> Codes(t)] : t \in {"41", "-5", ""}}
    \cup {[file |-> f, stdin |-> <<>>] :
            f \in {FileBlBack, FileBlFwd, FileBlNext, FileNoCase, FileHaltIndexed,
                   FileTwoLabels64, FileStack64, FileMemHigh64, FileDiv64,
                   FileNoEnd64, FileWord64, FileBytes64, FileBytes16, FileIndexed64,
                   FileLabelImm64, FileCond64("5"), FileCond64("9"), FileCond64("2"),
                   FileNand64, FileRz64}}

\* no emulate iteration yet
NoOp == 0 - 1

Regs0(n) == [i \in 0..(n - 1) |-> Zero]

\* the state when main starts: the globals are zero-initialised
Init32 ==
    /\ profile = "mipt32"
    /\ wordBits \in {32, 64}
    /\ \E run \in Runs32 : file = run.file /\ typed = run.stdin /\ stdin = run.stdin
    /\ input = <<>>
    /\ label = <<>>
    /\ mem = <<>>
    /\ regs = Regs0(NREGS32)
    /\ status = "load"
    /\ exitcode = <<>>
    /\ stdout = <<>>
    /\ last = [pc |-> Zero, type |-> NoOp, a |-> NoArgs, ub |-> FALSE,
               regs |-> Regs0(NREGS32), mem |-> <<>>]
    /\ stk = StkIdle
    /\ calls = {}

Init64 ==
    /\ profile = "mipt64"
    /\ wordBits = 64
    /\ \E run \in Runs64 : file = run.file /\ typed = run.stdin /\ stdin = run.stdin
    /\ input = <<>>
    /\ label = <<>>
    /\ mem = <<>>
    /\ regs = Regs0(NREGS64)
    /\ status = "load"
    /\ exitcode = <<>>
    /\ stdout = <<>>
    /\ last = [pc |-> Zero, type |-> NoOp, a |-> NoArgs, ub |-> FALSE,
               regs |-> Regs0(NREGS64), mem |-> <<>>]
    /\ stk = StkIdle
    /\ calls = {}

Init == Init32 \/ Init64

Next ==
    \/ main32
    \/ emulate32_halt
    \/ emulate32_syscall
    \/ emulate32_add
    \/ emulate32_addi
    \/ emulate32_sub
    \/ emulate32_mul
    \/ emulate32_muli
    \/ emulate32_div
    \/ emulate32_lc
    \/ emulate32_mov
    \/ emulate32_push
    \/ emulate32_pop
    \/ emulate32_calli
    \/ emulate32_ret
    \/ emulate32_cmp
    \/ emulate32_cmpi
    \/ emulate32_jmp
    \/ emulate32_jne
    \/ emulate32_jeq
    \/ emulate32_jle
    \/ emulate32_jl
    \/ emulate32_jge
    \/ emulate32_jg
    \/ emulate32_unknown
    \/ main64
    \/ emulate64_halt
    \/ emulate64_svc
    \/ emulate64_add
    \/ emulate64_sub
    \/ emulate64_bl
    \/ emulate64_nand
    \/ emulate64_cmp
    \/ emulate64_cne
    \/ emulate64_ceq
    \/ emulate64_cle
    \/ emulate64_clt
    \/ emulate64_cge
    \/ emulate64_cgt
    \/ emulate64_ld
    \/ emulate64_st
    \/ emulate64_div
    \/ emulate64_mod
    \/ emulate64_unknown

Spec == Init /\ [][Next]_vars

---------------------------------------------------------------------------
(* The program text as its author reads it, independently of the           *)
(* assembler: which line declares a label, which line carries a command,   *)
(* and at which output position each command belongs.                      *)

\* the lexemes of a line of input.fasm, without its comment
SourceLex(line) ==
    split(StripBlanks(IF find(line, ";") = npos THEN line
                      ELSE substr(line, 0, find(line, ";"))))

\* the line declares label L: its first lexeme is L followed by ':'
Declares(line, L) == SourceLex(line) # <<>> /\ SourceLex(line)[1] = L \o ":"

\* the line carries a command or a data directive, after its label if any
Carries(line) ==
    LET p == SourceLex(line)
    IN  /\ p # <<>>
        /\ IF IsLabelDecl(p[1]) THEN Len(p) > 1 ELSE p[1] # "end"

DeclaredOnce(L) == Cardinality({i \in 1..Len(file) : Declares(file[i], L)}) = 1

\* the number of commands before line i of the file
CommandsBefore(i) == Cardinality({j \in 1..(i - 1) : Carries(file[j])})

\* the output position, counted in commands, of the command that follows the
\* declaration of L
PositionOf(L) == CommandsBefore(CHOOSE i \in 1..Len(file) : Declares(file[i], L))

\* the file has a command at output position k, and its lexemes
HasInstrAt(k) == \E i \in 1..Len(file) : Carries(file[i]) /\ CommandsBefore(i) = k

InstrAt(k) ==
    LET p == SourceLex(file[CHOOSE i \in 1..Len(file) :
                                Carries(file[i]) /\ CommandsBefore(i) = k])
    IN  IF IsLabelDecl(p[1]) THEN Tail(p) ELSE p

\* the number of the register a lexeme such as "r12," names
NamedReg(lexeme) == strtol(substr(NoComma(lexeme), 1, Len(lexeme)))

\* the command the last emulate iteration of Profile A executed is a line of
\* the file, and its lexemes
RanLine32 ==
    /\ profile = "mipt32"
    /\ last.type # NoOp
    /\ IsSmall(last.pc)
    /\ HasInstrAt(Val(last.pc))
    /\ InstrAt(Val(last.pc))[1] \in DOMAIN CODE32

Ran32 == InstrAt(Val(last.pc))

\* the predicate of a jump on the flag: always for jmp and calli, then jne,
\* jeq, jle, jl, jge, jg as documented
JumpHolds(type, flag) ==
    CASE type \in {41, 46} -> TRUE
      [] type = 47 -> flag # W(0)
      [] type = 48 -> flag = W(0)
      [] type = 49 -> flag # W(2)
      [] type = 50 -> flag = W(1)
      [] type = 51 -> flag # W(1)
      [] type = 52 -> flag = W(2)

\* a < b for words read as signed integers of the word's width
SignedLt(a, b) ==
    LET neg(x) == IF wordBits = 32 THEN x[2] >= Limb \div 2 ELSE x[4] >= Limb \div 2
    IN  IF neg(a) # neg(b) THEN neg(a) ELSE Lt64(a, b)

\* the registers the handler of opcode `type` writes when invoked with a
Writes32(type, a) ==
    CASE type \in {2, 3, 4, 12, 24} -> {a.r1}
      [] type \in {6, 7, 8} -> {a.r1, WAdd(a.r1, W(1))}
      [] type = 38 -> {W(14)}
      [] type = 39 -> {W(14), a.r1}
      [] type \in {43, 44} -> {W(16)}
      [] type = 1 -> IF a.mod \in {W(100), W(104)} THEN {a.r1} ELSE {}
      [] OTHER -> {}

---------------------------------------------------------------------------
(* The claims.                                                             *)

C2_JumpReachesLabel ==
    (RanLine32 /\ status = "running" /\ last.type \in J32) =>
        ((/\ Len(Ran32) = 2
          /\ CODE32[Ran32[1]] = last.type
          /\ DeclaredOnce(Ran32[2])
          /\ JumpHolds(last.type, last.regs[16]))
            => regs[15] = W(PositionOf(Ran32[2])))

\* C3 (Profile B, as stated): when the command just executed is `bl L` and L
\* is declared once in the program, before or after the branch, the program
\* counter at the next fetch is the byte offset (8 per command) of the
\* command that follows L's declaration.
C3_BlReachesLabel ==
    (/\ profile = "mipt64"
     /\ status = "running"
     /\ last.type = 19
     /\ IsSmall(last.pc)
     /\ Val(last.pc) % 8 = 0
     /\ HasInstrAt(Val(last.pc) \div 8)) =>
        LET ran == InstrAt(Val(last.pc) \div 8)
        IN  (Len(ran) = 2 /\ ran[1] = "bl" /\ DeclaredOnce(ran[2]))
                => regs[31] = W(8 * PositionOf(ran[2]))

\* C4 (Profile A, as stated): after cmp r1, r2 on the integers a and b the
\* two registers hold, negative values included, the flag register is 0 iff
\* a = b, 1 iff a < b and 2 iff a > b.
C4_CmpSigned ==
    (profile = "mipt32" /\ status = "running" /\ last.type = 43 /\ ~last.ub) =>
        LET a == last.regs[Val(last.a.r1)]
            b == last.regs[Val(last.a.r2)]
        IN  regs[16] = IF a = b THEN W(0) ELSE IF SignedLt(a, b) THEN W(1) ELSE W(2)

\* C5 (Profile A, as stated): a conditional jump leaves the program counter
\* at its target iff the flag satisfies its predicate (jne: not Equal, jeq:
\* Equal, jle: not Greater, jl: Less, jge: not Less, jg: Greater) and at the
\* next word otherwise; no other register and no memory word changes.
C5_ConditionalJumps ==
    (profile = "mipt32" /\ status = "running" /\ last.type \in 47..52) =>
        /\ regs[15] = IF JumpHolds(last.type, last.regs[16]) THEN last.a.tail
                      ELSE WAdd(last.pc, W(1))
        /\ \A i \in 0..(NREGS32 - 1) : i # 15 => regs[i] = last.regs[i]
        /\ mem = last.mem

\* C6 (Profile A, as stated): the example of the file header, given an
\* integer n, never fails, exits only with code 0 after writing n + 1 and a
\* newline, and each of its register-immediate commands is invoked with the
\* register its source line names.
C6_HeaderExample ==
    (profile = "mipt32" /\ file = FileHeader /\ ScanInt(typed).ok) =>
        /\ status \notin {"fault", "aborted"}
        /\ status = "exited" =>
               /\ exitcode = <<0>>
               /\ stdout = IntCodes(ScanInt(typed).val + 1) \o <<10>>
        /\ (RanLine32 /\ last.type \in ReadsR1) =>
               last.a.r1 = W(NamedReg(Ran32[2]))

\* C7 (Profile A, as stated): after div r, r2 with the dividend
\* D = high * 2^32 + low in the registers (r + 1, r), both below 2^32, and a
\* non-zero divisor d in another register, register r holds D div d and
\* register r + 1 holds D mod d.
C7_Div ==
    (/\ profile = "mipt32"
     /\ status = "running"
     /\ last.type = 8
     /\ RegOK32(last.a.r1) /\ Val(last.a.r1) < 14
     /\ RegOK32(last.a.r2)
     /\ Val(last.a.r2) \notin {Val(last.a.r1), Val(last.a.r1) + 1}) =>
        LET r == Val(last.a.r1)
            low == last.regs[r]
            high == last.regs[r + 1]
            d == last.regs[Val(last.a.r2)]
            qr == DivMod64(<<low[1], low[2], high[1], high[2]>>, d)
        IN  (d # Zero /\ low = Low32(low) /\ high = Low32(high)) =>
                regs[r] = qr.quot /\ regs[r + 1] = qr.rem

\* C8 (Profile A, as stated): the command just executed was dispatched with
\* the opcode of its mnemonic and with the operands of its source line: both
\* registers and the literal for RR, the register and the literal for RI,
\* the position of the label for J.
C8_RoundTrip ==
    (RanLine32 /\ ~last.ub) =>
        /\ last.type = CODE32[Ran32[1]]
        /\ TYPE32[last.type] = "RR" =>
               /\ last.a.r1 = W(NamedReg(Ran32[2]))
               /\ last.a.r2 = W(NamedReg(Ran32[3]))
               /\ last.a.mod = W(strtol(Ran32[4]))
        /\ (TYPE32[last.type] = "RI" /\ last.type # 42) =>
               /\ last.a.mod = W(strtol(Ran32[3]))
               /\ last.type \in ReadsR1 => last.a.r1 = W(NamedReg(Ran32[2]))
        /\ last.type = 42 => last.a.mod = W(strtol(Ran32[2]))
        /\ (TYPE32[last.type] = "J" /\ DeclaredOnce(Ran32[2])) =>
               last.a.tail = W(PositionOf(Ran32[2]))

\* the operand of the command the last emulate iteration executed, and
\* whether that command was halt or a system call with service id 0
LastOperand == IF profile = "mipt32" THEN last.a.mod ELSE last.a.imm
LastHalt == last.type = 0
LastExit0 == last.type = 1 /\ LastOperand = Zero

\* C9 (both profiles, amended): after an emulate iteration the process has
\* exited iff the command was halt, with its immediate operand as exit code,
\* or a system call with service id 0, with exit code 0; after any other
\* command the machine is still running unless a fatal error ended the
\* process: an opcode absent from the format table (Profile A), or a step
\* that left defined behaviour.
C9_StopsOnExitOrFatal ==
    last.type # NoOp =>
        /\ LastHalt => status = "exited" /\ exitcode = <<WordToInt(LastOperand)>>
        /\ LastExit0 => status = "exited" /\ exitcode = <<0>>
        /\ (~LastHalt /\ ~LastExit0) =>
               \/ status = "running"
               \/ status = "aborted" /\ profile = "mipt32" /\ last.type \notin DOMAIN TYPE32
               \/ status = "fault" /\ last.ub

\* C9: a run of Profile A that halt ended with its operand 9 as exit code
C9_Witness ==
    /\ profile = "mipt32"
    /\ status = "exited"
    /\ LastHalt
    /\ LastOperand = W(9)
    /\ exitcode = <<9>>

\* C9 (as stated): the loop stops only by halt or by service id 0, and after
\* any other command the machine is still running.
C9_StopsOnlyOnHalt ==
    last.type # NoOp =>
        /\ LastHalt => status = "exited" /\ exitcode = <<WordToInt(LastOperand)>>
        /\ LastExit0 => status = "exited" /\ exitcode = <<0>>
        /\ (~LastHalt /\ ~LastExit0) => status = "running"

\* the command just executed is none of the jumps, call, calli, ret, halt
LastPlain32 ==
    /\ profile = "mipt32"
    /\ status = "running"
    /\ last.type \in DOMAIN TYPE32
    /\ last.type \notin J32 \cup {0, 40, 42}

PassLine(i) == split(file_input(file)[i])

\* C11: once the label pass has run, every label declaration of the line
\* sequence it was given is recorded in the label table, and no label-only
\* line is left in the sequence (none was skipped by the scan).
C11_LabelPass ==
    status # "load" =>
        /\ \A i \in 1..Len(file_input(file)) :
               (PassLine(i) # <<>> /\ IsLabelDecl(PassLine(i)[1])) =>
                   substr(PassLine(i)[1], 0, Len(PassLine(i)[1]) - 1) \in DOMAIN label
        /\ \A i \in 1..Len(input) :
               ~(Len(split(input[i])) = 1 /\ IsLabelDecl(split(input[i])[1]))

\* C12: in Profile A the flag register (16) always holds Equal (0), Less (1)
\* or Greater (2), and an instruction other than cmp, cmpi, cmpd leaves it as
\* it was.
C12_FlagTriState ==
    profile = "mipt32" =>
        /\ regs[16] \in {W(0), W(1), W(2)}
        /\ (last.type # NoOp /\ last.type \notin {43, 44, 45}) => regs[16] = last.regs[16]

\* the register indices the handler of opcode `type` of Profile A passes to
\* greg and sreg when invoked with a (the fixed registers 14, 15 and 16 apart)
RegsUsed32(type, a) ==
    CASE type \in {2, 4, 24, 43} -> {a.r1, a.r2}
      [] type = 8 -> {a.r1, WAdd(a.r1, W(1)), a.r2}
      [] type \in {3, 12, 38, 39, 44} -> {a.r1}
      [] type = 1 /\ a.mod \in {W(100), W(102), W(104), W(105)} -> {a.r1}
      [] OTHER -> {}

\* the register indices switch_c of Profile B takes from the command `row`,
\* with the upper half rd + 1 of a pair
RegsUsed64(row) == {t6_10(row), t6_10(row) + 1, t11_15(row), t16_20(row)}

\* C13: every register index used while executing a decoded instruction lies
\* within [0, register_count): 17 registers in Profile A, 33 in Profile B.
C13_RegisterIndices ==
    last.type # NoOp =>
        IF profile = "mipt32"
        THEN last.type \in DOMAIN TYPE32 =>
                 \A r \in RegsUsed32(last.type, last.a) : RegOK32(r)
        ELSE \A r \in RegsUsed64(gmem64(last.mem, last.pc, Zero)) : r \in 0..(NREGS64 - 1)

\* the memory addresses an emulate iteration of Profile A passes to gmem and
\* smem: the fetch at pc, and the stack slot of push, calli, pop and ret
MemUsed32(type, pc, rs) ==
    {pc} \cup (CASE type \in {38, 41} -> {WSub(rs[14], W(1))}
                 [] type \in {39, 42} -> {rs[14]}
                 [] OTHER -> {})

\* the same for Profile B: the fetch, and the address of ld and st
MemUsed64(a, pc, rs) ==
    {pc} \cup (CASE a.type = 28 -> {IF a.ra = 29 THEN rs[29] ELSE Add64(rs[a.ra], a.imm)}
                 [] a.type = 29 -> {IF a.ra = 29 THEN Sub64(rs[29], a.imm)
                                    ELSE Add64(rs[a.ra], a.imm)}
                 [] OTHER -> {})

\* the last emulate iteration used an address outside [0, capacity)
LastOutside ==
    /\ last.type # NoOp
    /\ IF profile = "mipt32"
       THEN \E adr \in MemUsed32(last.type, last.pc, last.regs) : ~MemOK32(adr)
       ELSE \E adr \in MemUsed64(last.a, last.pc, last.regs) : ~MemOK64(adr)

\* C14: an instruction whose effective address falls outside [0, capacity)
\* ends the run with an error and leaves memory and registers as they were.
C14_BoundsError ==
    LastOutside => status \notin {"running", "exited"} /\ regs = last.regs /\ mem = last.mem

\* the last emulate iteration executed an integer division or modulo whose
\* divisor is zero
LastDivByZero ==
    /\ last.type # NoOp
    /\ IF profile = "mipt32"
       THEN last.type = 8 /\ RegOK32(last.a.r2) /\ last.regs[Val(last.a.r2)] = Zero
       ELSE last.type \in {5, 6} /\ last.a.imm = Zero

\* C15: an integer division or modulo by zero stops the run and leaves the
\* registers as they were.
C15_DivByZero ==
    LastDivByZero => status \notin {"running", "exited"} /\ regs = last.regs

\* the opcode the last emulate iteration fetched is absent from the format
\* table of the profile
LastUnknown ==
    /\ last.type # NoOp
    /\ IF profile = "mipt32" THEN last.type \notin DOMAIN TYPE32
       ELSE TYPE64(last.type) = ""

\* C16: fetching a word whose opcode is absent from the format table stops
\* the run at that instruction: no register (the program counter included)
\* and no memory word changes.
C16_UnknownOpcode ==
    LastUnknown => status \notin {"running", "exited"} /\ regs = last.regs /\ mem = last.mem

\* the label table as the label pass leaves it for the encode pass
PassLabels ==
    IF profile = "mipt32" THEN parse_labels32(file_input(file), <<>>).label
    ELSE parse_labels64(file_input(file), <<>>).label

\* the lexeme of a line (lexemes p) that stands where a label may: the operand
\* of end, of a J command and the last operand of an RI command in Profile
\* A; the operand of end and of a one-operand bl in Profile B. "" if none.
LabelOperand(p) ==
    IF Len(p) < 2 THEN ""
    ELSE IF p[1] = "end" THEN p[2]
    ELSE IF profile = "mipt32"
    THEN IF p[1] \notin DOMAIN CODE32 THEN ""
         ELSE IF TYPE32[CODE32[p[1]]] = "J" \/ p[1] = "ret" THEN p[2]
         ELSE IF TYPE32[CODE32[p[1]]] = "RI" /\ Len(p) >= 3 THEN p[3]
         ELSE ""
    ELSE IF p[1] = "bl" /\ Len(p) = 2 THEN p[2] ELSE ""

\* the lexeme is a name, not a number
IsName(x) == x # "" /\ ~IsDigit(CharAt(x, 0)) /\ CharAt(x, 0) # "-"

\* the lines the encode pass reaches: up to the first end directive
EncodedLines ==
    {i \in 1..Len(input) : \A j \in 1..(i - 1) : split(input[j])[1] # "end"}

\* some line the encode pass reaches names a label that is not in the table
NamesUnknown ==
    \E i \in EncodedLines :
        /\ IsName(LabelOperand(split(input[i])))
        /\ LabelOperand(split(input[i])) \notin DOMAIN PassLabels

\* C17: when an operand or an end directive names a label that is not in the
\* label table, assembly fails: the process ends before any instruction is
\* executed.
C17_UnknownLabelFails ==
    (status # "load" /\ NamesUnknown) =>
        status \notin {"running", "exited"} /\ last.type = NoOp

\* the last emulate iteration of Profile B executed a stack-relative st
\* (push) or ld (pop) within defined behaviour
LastPush64 == profile = "mipt64" /\ last.type = 29 /\ last.a.ra = 29 /\ ~last.ub
LastPop64 == profile = "mipt64" /\ last.type = 28 /\ last.a.ra = 29 /\ ~last.ub

\* C18: in Profile B a push leaves the stack pointer exactly 8 bytes lower,
\* with the value stored at the new pointer, and a pop leaves it exactly 8
\* bytes higher, having loaded the dword at the old pointer, whatever the
\* immediate operand of the instruction is.
C18_StackUnit ==
    /\ LastPush64 =>
           /\ regs[29] = Sub64(last.regs[29], W(8))
           /\ gmem64(mem, regs[29], Zero) = last.regs[last.a.rd]
    /\ (LastPop64 /\ last.a.rd # 29) =>
           /\ regs[29] = Add64(last.regs[29], W(8))
           /\ regs[last.a.rd] = gmem64(last.mem, last.regs[29], Zero)

\* the file has an end directive, and the label it names
HasEnd == \E i \in 1..Len(file) : Len(SourceLex(file[i])) = 2 /\ SourceLex(file[i])[1] = "end"

EndLabel ==
    SourceLex(file[CHOOSE i \in 1..Len(file) :
                       Len(SourceLex(file[i])) = 2 /\ SourceLex(file[i])[1] = "end"])[2]

\* the output position the encode pass has reached when it comes to line k
\* (counted from 0) of the sequence the label pass left
WrittenAt(k) ==
    IF profile = "mipt32"
    THEN Loop(LAMBDA st, j : assembleStep32(input, PassLabels, st, j),
              [done |-> FALSE, err |-> "ok", pc |-> Zero, mem |-> <<>>,
               regs |-> Regs0(NREGS32), label |-> PassLabels], 0, k - 1).pc
    ELSE Loop(LAMBDA st, j : assembleStep64(input, st, j),
              [done |-> FALSE, err |-> "ok", pc |-> Zero, mem |-> <<>>,
               regs |-> Regs0(NREGS64), label |-> PassLabels], 0, k - 1).pc

\* the run is about to fetch its first instruction
AtEntry == status = "running" /\ last.type = NoOp

\* C19: for a program that ends with `end L`, L declared once, the initial
\* program counter is the output position at which the encode pass wrote the
\* command that follows the declaration of L.
C19_EndSetsEntry ==
    (AtEntry /\ HasEnd /\ DeclaredOnce(EndLabel)) =>
        regs[IF profile = "mipt32" THEN 15 ELSE 31] = WrittenAt(PositionOf(EndLabel))

\* the last emulate iteration executed ret within defined behaviour, with c
\* a calli executed before it: the stack pointer is again one below the one
\* of the calli and the slot under it still holds the address the calli saved
RetOf(c) ==
    /\ profile = "mipt32"
    /\ last.type = 42
    /\ ~last.ub
    /\ status = "running"
    /\ last.regs[14] = WSub(c.s, W(1))
    /\ gmem32(last.mem, last.regs[14], Zero) = WAdd(c.P, W(1))

\* C20: when ret k executes with the stack pointer again at s - 1 and the
\* saved slot intact, for a calli executed at address P with stack pointer s,
\* the next instruction fetched is at P + 1 and the stack pointer is s + k.
C20_CallReturn ==
    \A c \in calls :
        RetOf(c) => regs[15] = WAdd(c.P, W(1)) /\ regs[14] = WAdd(c.s, last.a.mod)

\* a ret 2 has returned to the word after its calli at address 0
C20_Witness ==
    \E c \in calls :
        /\ RetOf(c)
        /\ c.P = Zero
        /\ last.a.mod = W(2)
        /\ regs[15] = W(1)
        /\ regs[14] = WAdd(c.s, W(2))

\* the command the last emulate iteration of Profile B fetched
LastRow64 == gmem64(last.mem, last.pc, Zero)

\* the last emulate iteration of Profile B executed a load or store whose
\* base field names an ordinary register and whose index field is not rz
LastIndexed64 ==
    /\ profile = "mipt64"
    /\ last.type \in {28, 29}
    /\ ~last.ub
    /\ status = "running"
    /\ t11_15(LastRow64) \notin {27, 29, 31}
    /\ t16_20(LastRow64) # 27

\* base + (index << shift) + literal on the registers before the command
IndexedAddress ==
    Add64(Add64(last.regs[t11_15(LastRow64)],
                Shl64(last.regs[t16_20(LastRow64)], t21_23(LastRow64))),
          W(t24_31(LastRow64)))

\* C21: such a load puts the dword at base + (index << shift) + literal into
\* rd, and such a store puts rd there and changes no byte elsewhere.
C21_IndexedAddress ==
    LastIndexed64 =>
        IF last.type = 28
        THEN regs[t6_10(LastRow64)] = gmem64(last.mem, IndexedAddress, Zero)
        ELSE mem = smem64(last.mem, IndexedAddress, last.regs[t6_10(LastRow64)])

\* C22: in Profile B the value the label pass binds to a label is the byte
\* offset at which the encode pass writes the command that follows the
\* declaration of the label.
C22_LabelIsOffset ==
    (profile = "mipt64" /\ status # "load") =>
        \A L \in DOMAIN PassLabels :
            DeclaredOnce(L) => PassLabels[L] = WrittenAt(PositionOf(L))

\* line i of the sequence the encode pass reads is `double x`
IsDoubleLine(i) == Len(split(input[i])) = 2 /\ split(input[i])[1] = "double"

\* C23: once Profile A has assembled a program, for every line `double x`
\* the two memory words at its output position and the next hold the low and
\* the high 32 bits of the bit pattern of x.
C23_DoubleWords ==
    (profile = "mipt32" /\ AtEntry) =>
        \A i \in EncodedLines :
            IsDoubleLine(i) =>
                /\ gmem32(mem, WrittenAt(i - 1), Zero)
                       = Low32(DoubleBits(split(input[i])[2]))
                /\ gmem32(mem, WAdd(WrittenAt(i - 1), W(1)), Zero)
                       = Shr64(DoubleBits(split(input[i])[2]), 32)

\* line i of the sequence the encode pass reads is `bytes N`, and its N
IsBytesLine(i) == Len(split(input[i])) = 2 /\ split(input[i])[1] = "bytes"

BytesOf(i) == strtol(split(input[i])[2])

\* C24: once Profile B has assembled a program, for every line `bytes N` at
\* output position p the bytes p..p+N-1 are zero and the output position
\* after the line is at least p + N.
C24_BytesReserved ==
    (profile = "mipt64" /\ AtEntry) =>
        \A i \in EncodedLines :
            IsBytesLine(i) =>
                /\ \A j \in 0..(BytesOf(i) - 1) : ByteAt(mem, Val(WrittenAt(i - 1)) + j) = 0
                /\ ~Lt64(WrittenAt(i), Add64(WrittenAt(i - 1), W(BytesOf(i))))
---------------------------------------------------------------------------
\* the iteration before this state executed `mul r1, r2` of Profile A on
\* 32-bit operands, with r1 and r1 + 1 ordinary registers
LastMul32 ==
    /\ profile = "mipt32"
    /\ last.type = 6
    /\ status = "running"
    /\ Val(last.a.r1) < 14
    /\ Shr64(last.regs[Val(last.a.r1)], 32) = Zero
    /\ Shr64(last.regs[Val(last.a.r2)], 32) = Zero

FullProduct32 == Mul64(last.regs[Val(last.a.r1)], last.regs[Val(last.a.r2)])

\* C25: after `mul r1, r2` of Profile A on 32-bit operands a and b, r1 holds
\* the low 32 bits of the full product a * b and r1 + 1 its high 32 bits.
C25_MulPair ==
    LastMul32 =>
        /\ regs[Val(last.a.r1)] = Low32(FullProduct32)
        /\ regs[Val(last.a.r1) + 1] = Shr64(FullProduct32, 32)

\* the product needed more than 32 bits and the pair holds it
C25_Witness ==
    /\ LastMul32
    /\ Shr64(FullProduct32, 32) # Zero
    /\ regs[Val(last.a.r1)] = Low32(FullProduct32)
    /\ regs[Val(last.a.r1) + 1] = Shr64(FullProduct32, 32)

---------------------------------------------------------------------------
\* the flag (0 Equal, 1 Less, 2 Greater) satisfies the predicate of the
\* conditional opcode t: cne not Equal, ceq Equal, cle not Greater, clt Less,
\* cge not Less, cgt Greater
Satisfied64(t, flag) ==
    CASE t = 22 -> flag # W(0)
      [] t = 23 -> flag = W(0)
      [] t = 24 -> flag # W(2)
      [] t = 25 -> flag = W(1)
      [] t = 26 -> flag # W(1)
      [] t = 27 -> flag = W(2)

\* the iteration before this state executed one of cne .. cgt of Profile B
LastCond64 ==
    /\ profile = "mipt64"
    /\ last.type \in 22..27
    /\ ~last.ub
    /\ status = "running"

\* the command word of the last iteration with the opcode of add in place of
\* its own: `add rd, rs, imm` with the same operand fields
SameAsAdd64 == [LastRow64 EXCEPT ![2] = (@ % 1024) + 1024 * CODE64("add")]

C26_Flag == last.regs[32]

---------------------------------------------------------------------------
\* the iteration before this state executed nand of Profile B with a
\* destination other than the program counter
LastNand64 ==
    /\ profile = "mipt64"
    /\ last.type = 10
    /\ ~last.ub
    /\ status = "running"
    /\ last.a.rd # 31

\* C27: after `nand rd, rs, imm` of Profile B, rd holds the complement of
\* (rs AND imm).
C27_Nand ==
    LastNand64 => regs[last.a.rd] = Not64(And64(last.regs[last.a.rs], last.a.imm))

---------------------------------------------------------------------------
\* C28: in every state of a running Profile B program the register rz (27)
\* holds 0.
C28_RzIsZero ==
    (profile = "mipt64" /\ status = "running") => regs[REGISTER64.rz] = Zero

---------------------------------------------------------------------------
\* the value lies in [0, 2^32)
Fits32(v) == Shr64(v, 32) = Zero

\* C29: in every state of Profile A every register and every memory word
\* holds a value in [0, 2^32).
C29_WordRange ==
    profile = "mipt32" =>
        /\ \A r \in DOMAIN regs : Fits32(regs[r])
        /\ \A adr \in DOMAIN mem : Fits32(mem[adr])

---------------------------------------------------------------------------
\* line i of the sequence the encode pass reads is a command of Profile A
IsCommandLine32(i) == split(input[i])[1] \in DOMAIN CODE32

\* the register a lexeme such as "r12," names
NamedRegister(lexeme) == strtol(substr(lexeme, 1, Len(lexeme) - 1))

\* the word the encode pass wrote for line i
AssembledWord(i) == gmem32(mem, WrittenAt(i - 1), Zero)

\* the word of line i carries the opcode of its mnemonic in bits 24..31, the
\* first register it names in bits 20..23 and, for an RR command, the second
\* in bits 16..19
FieldsIntact(i) ==
    LET p == split(input[i])
        code == CODE32[p[1]]
        w == AssembledWord(i)
    IN  /\ tf8(w) = code
        /\ (TYPE32[code] \in {"RM", "RR"} \/ (TYPE32[code] = "RI" /\ code # 42))
               => ts4(w) = NamedRegister(p[2])
        /\ TYPE32[code] = "RR" => tt4(w) = NamedRegister(p[3])

\* C30: once Profile A has assembled a program, every command word carries
\* the opcode of its mnemonic in its top 8 bits and the named registers in
\* its register fields, whatever the literal of the command.
C30_FieldsIntact ==
    (profile = "mipt32" /\ AtEntry) =>
        \A i \in EncodedLines : IsCommandLine32(i) => FieldsIntact(i)

---------------------------------------------------------------------------
\* the program counter of Profile A addresses a memory word that holds 0
AtZeroWord32 ==
    /\ profile = "mipt32"
    /\ status = "running"
    /\ MemOK32(regs[15])
    /\ gmem32(mem, regs[15], Zero) = Zero

\* C31: whenever the program counter of Profile A addresses a memory word
\* equal to 0, the next step ends the run with exit code 0.
C31_ZeroWordHalts ==
    [][AtZeroWord32 => (status' = "exited" /\ exitcode' = <<0>>)]_vars

\* a run went past its last command into untouched memory and the word 0
\* fetched there ended it with exit code 0
C31_Witness ==
    /\ profile = "mipt32"
    /\ status = "exited"
    /\ exitcode = <<0>>
    /\ last.type = 0
    /\ ~last.ub
    /\ Val(last.pc) >= Len(file)
    /\ Val(last.pc) \notin DOMAIN last.mem

====
